---- MODULE Spec2Model ----
(***************************************************************************)
(* A model of javamcp's two stateful cores:                                *)
(*   - APIIndexer / QueryEngine (src/javamcp/indexer): six insertion-      *)
(*     ordered maps over parsed Java classes, and the read-only queries;   *)
(*   - GitRepositoryManager (src/javamcp/repositories): the clone-or-sync  *)
(*     batch over the configured repositories.                             *)
(* Strings the code inspects (names, packages, FQNs) are sequences of      *)
(* character codes, so that lower-casing and substring tests are computed. *)
(* Python dicts are association lists <<key, value>> in insertion order.   *)
(***************************************************************************)
EXTENDS Integers, Sequences, FiniteSets, TLC

VARIABLES
    index,      \* the APIIndexer object: its six maps and _is_built
    added,      \* history: add_class ran since construction / the last clear()
    last,       \* history: the last indexer call, its arguments, and the index
                \* as it stood between the two phases of reindex_repository
    idem,       \* the clear/add/clear/add script of IdemSpec, or the
                \* reindex_repository call under way of InterleavedSpec; else IdleScript
    repositories, \* GitRepositoryManager.repositories: list of Repository
    fs,         \* the filesystem under base_local_path: local path -> entry
    pc,         \* where process_repositories stands
    cur,        \* index of the repository being processed
    results,    \* the results list process_repositories is building
    runs,       \* history: which process_repositories call this is: "none", "first" or "later"
    attempts,   \* history: the operations the current call has begun, one entry each
    trace,      \* history: the steps of the operation under way or last finished
    rm          \* the RepositoryManager object, its configuration and its disk

vars == <<index, added, last, idem, repositories, fs, pc, cur, results, runs,
          attempts, trace, rm>>

idxVars == <<index, added, last>>
syncVars == <<repositories, fs, pc, cur, results, runs, attempts, trace>>

----------------------------------------------------------------------------
(* Bounds *)

\* most class entries the index may hold at once (sum of the repository lists);
\* it also bounds the lists handed to add_classes / reindex_repository
MaxEntries == 2

----------------------------------------------------------------------------
(* Strings as character codes *)

\* str.lower(): A..Z (65..90) become a..z, everything else is unchanged
Lower(s) == [i \in 1..Len(s) |-> IF s[i] \in 65..90 THEN s[i] + 32 ELSE s[i]]

\* Python's `pattern in name` on strings: some window of name equals pattern
Contains(pattern, name) ==
    \E i \in 0..(Len(name) - Len(pattern)) :
        SubSeq(name, i + 1, i + Len(pattern)) = pattern

----------------------------------------------------------------------------
(* Insertion-ordered dict *)

DictKeys(d) == {d[i][1] : i \in 1..Len(d)}

DictHas(d, k) == k \in DictKeys(d)

DictPos(d, k) == CHOOSE i \in 1..Len(d) : d[i][1] = k

\* d.get(k, default)
DictGet(d, k, default) == IF DictHas(d, k) THEN d[DictPos(d, k)][2] ELSE default

\* d[k] = v : an existing key keeps its position, a new key goes last
DictSet(d, k, v) ==
    IF DictHas(d, k)
    THEN [d EXCEPT ![DictPos(d, k)] = <<k, v>>]
    ELSE Append(d, <<k, v>>)

\* d.pop(k, None)
DictPop(d, k) == SelectSeq(d, LAMBDA kv : kv[1] # k)

\* mutant: the item goes to the front of the key's list
DictAppendFront(d, k, x) == DictSet(d, k, <<x>> \o DictGet(d, k, <<>>))

\* defaultdict(list): d[k].append(x)
DictAppend(d, k, x) == DictSet(d, k, Append(DictGet(d, k, <<>>), x))

\* list(d.values()) flattened, for dicts of lists
RECURSIVE Flatten(_)
Flatten(d) == IF d = <<>> THEN <<>> ELSE d[1][2] \o Flatten(Tail(d))

RECURSIVE SumLens(_)
SumLens(d) == IF d = <<>> THEN 0 ELSE Len(d[1][2]) + SumLens(Tail(d))

Range(s) == {s[i] : i \in 1..Len(s)}

----------------------------------------------------------------------------
(* The parsed entities handed to the indexer *)

JavaMethod(n, rt) == [name |-> n, return_type |-> rt]

JavaClass(n, pkg, ms) ==
    [name |-> n, fully_qualified_name |-> pkg \o <<46>> \o n,
     package |-> pkg, methods |-> ms]

\* method names "r", "gV", "gv"
m_r == JavaMethod(<<114>>, "void")
m_gV == JavaMethod(<<103, 86>>, "String")
m_r2 == JavaMethod(<<114>>, "int")
m_gv == JavaMethod(<<103, 118>>, "Widget")

\* class W of package p (FQN p.W) with two methods
Widget == JavaClass(<<87>>, <<112>>, <<m_r, m_gV>>)
\* the same FQN p.W parsed again with other content (no methods)
WidgetAlt == JavaClass(<<87>>, <<112>>, <<>>)
\* class w of package P (FQN P.w): name, package and FQN differ from Widget's
\* only by case; shares method name "r" with Widget, and "gv" up to case
LowerWidget == JavaClass(<<119>>, <<80>>, <<m_r2, m_gv>>)

Classes == {Widget, WidgetAlt, LowerWidget}

Repos == {"R1", "R2"}

ClassLists(n) == UNION {[1..k -> Classes] : k \in 0..n}

\* The class object as held by the index.  `origin` is bookkeeping only (which
\* add_class call inserted this reference); no modelled code reads it.
Indexed(c, r) ==
    [name |-> c.name, fully_qualified_name |-> c.fully_qualified_name,
     package |-> c.package, methods |-> c.methods, origin |-> r]

Plain(e) ==
    [name |-> e.name, fully_qualified_name |-> e.fully_qualified_name,
     package |-> e.package, methods |-> e.methods]

PlainSeq(s) == [i \in 1..Len(s) |-> Plain(s[i])]

----------------------------------------------------------------------------
(* APIIndexer *)

NewIndex ==
    [class_index |-> <<>>, class_name_index |-> <<>>, package_index |-> <<>>,
     repository_index |-> <<>>, method_index |-> <<>>,
     class_method_index |-> <<>>, is_built |-> FALSE]

\* mutant: only the first method of a class is indexed
index_methods_first_only(idx, e, ms) ==
    IF ms = <<>> THEN idx
    ELSE [idx EXCEPT
            !.method_index = DictAppend(@, ms[1].name, <<e, ms[1]>>),
            !.class_method_index = DictAppend(@, e.fully_qualified_name, ms[1])]

RECURSIVE index_methods(_, _, _)
index_methods(idx, e, ms) ==
    IF ms = <<>> THEN idx
    ELSE index_methods(
            [idx EXCEPT
                !.method_index = DictAppend(@, ms[1].name, <<e, ms[1]>>),
                !.class_method_index =
                    DictAppend(@, e.fully_qualified_name, ms[1])],
            e, Tail(ms))

\* mutant: a class_index entry that exists is kept (first write wins)
add_class_entry_first_wins(idx, e, repository_url) ==
    LET i1 == [idx EXCEPT
                 !.class_index =
                     IF DictHas(@, e.fully_qualified_name) THEN @
                     ELSE DictSet(@, e.fully_qualified_name, e),
                 !.class_name_index = DictAppend(@, e.name, e),
                 !.package_index = DictAppend(@, e.package, e),
                 !.repository_index = DictAppend(@, repository_url, e)]
        i2 == index_methods(i1, e, e.methods)
    IN [i2 EXCEPT !.is_built = TRUE]

add_class_entry(idx, e, repository_url) ==
    LET i1 == [idx EXCEPT
                 !.class_index = DictSet(@, e.fully_qualified_name, e),
                 !.class_name_index = DictAppend(@, e.name, e),
                 !.package_index = DictAppend(@, e.package, e),
                 !.repository_index = DictAppend(@, repository_url, e)]
        i2 == index_methods(i1, e, e.methods)
    IN [i2 EXCEPT !.is_built = TRUE]

add_class(idx, java_class, repository_url) ==
    add_class_entry(idx, Indexed(java_class, repository_url), repository_url)

RECURSIVE add_classes(_, _, _)
add_classes(idx, java_classes, repository_url) ==
    IF java_classes = <<>> THEN idx
    ELSE add_classes(add_class(idx, java_classes[1], repository_url),
                     Tail(java_classes), repository_url)

KeepOtherFqn(lst, fqn) ==
    SelectSeq(lst, LAMBDA c : c.fully_qualified_name # fqn)

KeepOtherFqnPairs(lst, fqn) ==
    SelectSeq(lst, LAMBDA p : p[1].fully_qualified_name # fqn)

FilterKey(d, k, fqn) ==
    IF DictHas(d, k) THEN DictSet(d, k, KeepOtherFqn(DictGet(d, k, <<>>), fqn))
    ELSE d

\* mutant: the method_index lists are not filtered
remove_methods_skipped(mi, ms, fqn) == mi

RECURSIVE remove_methods(_, _, _)
remove_methods(mi, ms, fqn) ==
    IF ms = <<>> THEN mi
    ELSE remove_methods(
            IF DictHas(mi, ms[1].name)
            THEN DictSet(mi, ms[1].name,
                         KeepOtherFqnPairs(DictGet(mi, ms[1].name, <<>>), fqn))
            ELSE mi,
            Tail(ms), fqn)

\* mutant: the class_index entry is left behind
remove_class_keeps_fqn(idx, c) ==
    [idx EXCEPT
        !.class_name_index = FilterKey(@, c.name, c.fully_qualified_name),
        !.package_index = FilterKey(@, c.package, c.fully_qualified_name),
        !.method_index = remove_methods(@, c.methods, c.fully_qualified_name),
        !.class_method_index = DictPop(@, c.fully_qualified_name)]

remove_class(idx, c) ==
    [idx EXCEPT
        !.class_index = DictPop(@, c.fully_qualified_name),
        !.class_name_index = FilterKey(@, c.name, c.fully_qualified_name),
        !.package_index = FilterKey(@, c.package, c.fully_qualified_name),
        !.method_index = remove_methods(@, c.methods, c.fully_qualified_name),
        !.class_method_index = DictPop(@, c.fully_qualified_name)]

RECURSIVE remove_each(_, _)
remove_each(idx, cs) ==
    IF cs = <<>> THEN idx ELSE remove_each(remove_class(idx, cs[1]), Tail(cs))

\* mutant: removal that empties the index also resets the built flag
remove_repository_unbuilds(idx, repository_url) ==
    IF ~DictHas(idx.repository_index, repository_url) THEN idx
    ELSE LET classes_to_remove == DictGet(idx.repository_index, repository_url, <<>>)
             i1 == remove_each(idx, classes_to_remove)
         IN [i1 EXCEPT !.repository_index = DictPop(@, repository_url),
                       !.is_built = (i1.class_index # <<>>)]

remove_repository(idx, repository_url) ==
    IF ~DictHas(idx.repository_index, repository_url) THEN idx
    ELSE LET classes_to_remove == DictGet(idx.repository_index, repository_url, <<>>)
             i1 == remove_each(idx, classes_to_remove)
         IN [i1 EXCEPT !.repository_index = DictPop(@, repository_url)]

\* mutant: the old entries are not removed first
reindex_without_remove(idx, repository_url, java_classes) ==
    add_classes(idx, java_classes, repository_url)

reindex_repository(idx, repository_url, java_classes) ==
    add_classes(remove_repository(idx, repository_url), java_classes, repository_url)

Emptied(d) == [i \in 1..Len(d) |-> <<d[i][1], <<>>>>]

\* mutant: the lists are emptied, their keys stay
clear_keeps_keys(idx) ==
    [idx EXCEPT !.class_index = <<>>, !.class_name_index = Emptied(@),
                !.package_index = Emptied(@), !.repository_index = Emptied(@),
                !.method_index = Emptied(@), !.class_method_index = Emptied(@),
                !.is_built = FALSE]

\* mutant: method_index is not cleared
clear_keeps_methods(idx) ==
    [idx EXCEPT !.class_index = <<>>, !.class_name_index = <<>>,
                !.package_index = <<>>, !.repository_index = <<>>,
                !.class_method_index = <<>>, !.is_built = FALSE]

clear(idx) ==
    [idx EXCEPT !.class_index = <<>>, !.class_name_index = <<>>,
                !.package_index = <<>>, !.repository_index = <<>>,
                !.method_index = <<>>, !.class_method_index = <<>>,
                !.is_built = FALSE]

\* Optional[JavaClass]: <<>> is None, <<c>> is the class c
get_class_by_fqn(idx, fqn) ==
    IF DictHas(idx.class_index, fqn) THEN <<DictGet(idx.class_index, fqn, <<>>)>> ELSE <<>>
get_classes_by_name(idx, class_name) == DictGet(idx.class_name_index, class_name, <<>>)
get_classes_by_package(idx, package_name) == DictGet(idx.package_index, package_name, <<>>)
get_classes_by_repository(idx, repository_url) ==
    DictGet(idx.repository_index, repository_url, <<>>)
get_methods_by_name(idx, method_name) == DictGet(idx.method_index, method_name, <<>>)
get_methods_by_class(idx, fqn) == DictGet(idx.class_method_index, fqn, <<>>)
get_all_classes(idx) == [i \in 1..Len(idx.class_index) |-> idx.class_index[i][2]]
get_total_classes(idx) == Len(idx.class_index)
get_total_methods(idx) == SumLens(idx.class_method_index)
is_built(idx) == idx.is_built

----------------------------------------------------------------------------
(* QueryEngine: each query returns what it raised and the value it returned *)

Returned(v) == [raised |-> "none", value |-> v]
Raised(e) == [raised |-> e, value |-> <<>>]

\* Python truthiness of an Optional[str] argument: None (<<>>) and "" are false
\* (names are character sequences, repository URLs are opaque strings)
Truthy(opt) == opt # <<>> /\ opt[1] # <<>>
TruthyUrl(opt) == opt # <<>> /\ opt[1] # ""

\* names equal, or equal after lower-casing both
NameEq(a, b, case_sensitive) == IF case_sensitive THEN a = b ELSE Lower(a) = Lower(b)

\* mutant: the scan stops at the first key that matches
RECURSIVE ExtendWhereLowerEqFirst(_, _)
ExtendWhereLowerEqFirst(d, wanted) ==
    IF d = <<>> THEN <<>>
    ELSE IF Lower(d[1][1]) = Lower(wanted) THEN d[1][2]
    ELSE ExtendWhereLowerEqFirst(Tail(d), wanted)

\* for name, lst in d.items(): if name.lower() == wanted.lower(): out.extend(lst)
RECURSIVE ExtendWhereLowerEq(_, _)
ExtendWhereLowerEq(d, wanted) ==
    IF d = <<>> THEN <<>>
    ELSE (IF Lower(d[1][1]) = Lower(wanted) THEN d[1][2] ELSE <<>>)
         \o ExtendWhereLowerEq(Tail(d), wanted)

RECURSIVE ExtendWhereContains(_, _, _)
ExtendWhereContains(d, pattern, case_sensitive) ==
    IF d = <<>> THEN <<>>
    ELSE (IF (IF case_sensitive THEN Contains(pattern, d[1][1])
              ELSE Contains(Lower(pattern), Lower(d[1][1])))
          THEN d[1][2] ELSE <<>>)
         \o ExtendWhereContains(Tail(d), pattern, case_sensitive)

\* mutant: the class filter compares the simple names as they are written
search_methods_filter_exact(idx, method_name, class_name, case_sensitive) ==
    IF ~is_built(idx) THEN Raised("IndexNotBuiltError")
    ELSE LET matching_methods ==
                 IF case_sensitive THEN get_methods_by_name(idx, method_name)
                 ELSE ExtendWhereLowerEq(idx.method_index, method_name)
         IN Returned(
              IF Truthy(class_name)
              THEN SelectSeq(matching_methods, LAMBDA p : p[1].name = class_name[1])
              ELSE matching_methods)

search_methods(idx, method_name, class_name, case_sensitive) ==
    IF ~is_built(idx) THEN Raised("IndexNotBuiltError")
    ELSE LET matching_methods ==
                 IF case_sensitive THEN get_methods_by_name(idx, method_name)
                 ELSE ExtendWhereLowerEq(idx.method_index, method_name)
         IN Returned(
              IF Truthy(class_name)
              THEN SelectSeq(matching_methods,
                     LAMBDA p : NameEq(p[1].name, class_name[1], case_sensitive))
              ELSE matching_methods)

\* mutant: without case sensitivity only the pattern is lower-cased
search_methods_partial_raw_names(idx, method_name_pattern, case_sensitive) ==
    IF ~is_built(idx) THEN Raised("IndexNotBuiltError")
    ELSE Returned(ExtendWhereContains(
                    idx.method_index,
                    IF case_sensitive THEN method_name_pattern
                    ELSE Lower(method_name_pattern),
                    TRUE))

search_methods_partial(idx, method_name_pattern, case_sensitive) ==
    IF ~is_built(idx) THEN Raised("IndexNotBuiltError")
    ELSE Returned(ExtendWhereContains(idx.method_index, method_name_pattern,
                                      case_sensitive))

\* mutant: the scan runs to the end and keeps the last match
LastLowerEq(d, wanted) ==
    LET hits == SelectSeq(d, LAMBDA kv : Lower(kv[1]) = Lower(wanted))
    IN IF hits = <<>> THEN <<>> ELSE <<hits[Len(hits)][2]>>

RECURSIVE FirstLowerEq(_, _)
FirstLowerEq(d, wanted) ==
    IF d = <<>> THEN <<>>
    ELSE IF Lower(d[1][1]) = Lower(wanted) THEN <<d[1][2]>>
    ELSE FirstLowerEq(Tail(d), wanted)

search_class(idx, class_name, case_sensitive) ==
    IF ~is_built(idx) THEN Raised("IndexNotBuiltError")
    ELSE IF case_sensitive THEN Returned(get_class_by_fqn(idx, class_name))
    ELSE Returned(FirstLowerEq(idx.class_index, class_name))

\* mutant: an empty repository yields an empty list instead of the error
filter_classes_by_repository_empty(idx, repository_url) ==
    IF ~is_built(idx) THEN Raised("IndexNotBuiltError")
    ELSE Returned(get_classes_by_repository(idx, repository_url))

filter_classes_by_repository(idx, repository_url) ==
    IF ~is_built(idx) THEN Raised("IndexNotBuiltError")
    ELSE LET classes == get_classes_by_repository(idx, repository_url)
         IN IF classes = <<>> THEN Raised("RepositoryNotIndexedError")
            ELSE Returned(classes)

\* mutant: a class of the package passes only if the repository lists that
\* very entry
filter_classes_by_package_by_entry(idx, package_name, repository_url) ==
    IF ~is_built(idx) THEN Raised("IndexNotBuiltError")
    ELSE LET classes == get_classes_by_package(idx, package_name)
         IN IF TruthyUrl(repository_url)
            THEN Returned(SelectSeq(classes,
                   LAMBDA c : c \in Range(get_classes_by_repository(idx, repository_url[1]))))
            ELSE Returned(classes)

\* mutant: the is_built() guard is missing
filter_classes_by_package_unguarded(idx, package_name, repository_url) ==
    Returned(get_classes_by_package(idx, package_name))

filter_classes_by_package(idx, package_name, repository_url) ==
    IF ~is_built(idx) THEN Raised("IndexNotBuiltError")
    ELSE LET classes == get_classes_by_package(idx, package_name)
         IN IF TruthyUrl(repository_url)
            THEN LET repo_classes ==
                       {c.fully_qualified_name :
                          c \in Range(get_classes_by_repository(idx, repository_url[1]))}
                 IN Returned(SelectSeq(classes,
                       LAMBDA c : c.fully_qualified_name \in repo_classes))
            ELSE Returned(classes)

get_all_apis_from_repository(idx, repository_url) ==
    filter_classes_by_repository(idx, repository_url)

get_all_apis_from_package(idx, package_name, repository_url) ==
    filter_classes_by_package(idx, package_name, <<repository_url>>)

query_classes_by_name(idx, class_name, case_sensitive) ==
    IF ~is_built(idx) THEN Raised("IndexNotBuiltError")
    ELSE IF case_sensitive THEN Returned(get_classes_by_name(idx, class_name))
    ELSE Returned(ExtendWhereLowerEq(idx.class_name_index, class_name))

get_statistics(idx) ==
    Returned([total_classes |-> get_total_classes(idx),
              total_methods |-> get_total_methods(idx),
              total_repositories |-> Len(idx.repository_index),
              total_packages |-> Len(idx.package_index)])

----------------------------------------------------------------------------
(* The indexer's callers: one action per public APIIndexer method *)

Entries(idx) == SumLens(idx.repository_index)

\* The last APIIndexer or QueryEngine call.  For reindex_repository it also
\* records the arguments and the index as _remove_repository left it
\* (`removed`), before add_classes ran; for clear, how many entries the index
\* held when it was called; for a query, what it raised and the repository it
\* was given.
NoCall ==
    [op |-> "none", repo |-> "", classes |-> <<>>, removed |-> NewIndex,
     raised |-> "none", held |-> 0]

Called(op) == [NoCall EXCEPT !.op = op]

IdleScript == [step |-> 0, classes |-> <<>>, repo |-> "", preloaded |-> 0]

NoTrace ==
    [steps |-> <<>>, head_before |-> "", fetched |-> "", os_error |-> FALSE, error |-> ""]

RmIdle ==
    [urls |-> <<>>, auto_update |-> FALSE, repositories |-> <<>>, disk |-> <<>>,
     op |-> "", pc |-> "unused", cur |-> 0, calls |-> 0, log |-> <<>>]

SyncIdle ==
    /\ repositories = <<>>
    /\ fs = <<>>
    /\ pc = "unused"
    /\ cur = 0
    /\ results = <<>>
    /\ runs = "none"
    /\ attempts = <<>>
    /\ trace = NoTrace

Init ==
    /\ index = NewIndex
    /\ added = FALSE
    /\ last = NoCall
    /\ idem = IdleScript
    /\ SyncIdle
    /\ rm = RmIdle

Room(idx) == MaxEntries - Entries(idx)

AddClassCall(c, r) ==
    /\ index' = add_class(index, c, r)
    /\ added' = TRUE
    /\ last' = Called("add_class")

AddClassesCall(cs, r) ==
    /\ index' = add_classes(index, cs, r)
    /\ added' = (added \/ cs # <<>>)
    /\ last' = Called("add_classes")

ReindexRepositoryCall(r, cs) ==
    /\ index' = reindex_repository(index, r, cs)
    /\ added' = (added \/ cs # <<>>)
    /\ last' = [op |-> "reindex_repository", repo |-> r, classes |-> cs,
                removed |-> remove_repository(index, r), raised |-> "none",
                held |-> 0]

ClearCall ==
    /\ index' = clear(index)
    /\ added' = FALSE
    /\ last' = [Called("clear") EXCEPT !.held = Entries(index)]

AddClass ==
    /\ Room(index) >= 1
    /\ \E c \in Classes, r \in Repos : AddClassCall(c, r)
    /\ UNCHANGED <<idem, syncVars, rm>>

AddClasses ==
    /\ \E r \in Repos : \E cs \in ClassLists(Room(index)) : AddClassesCall(cs, r)
    /\ UNCHANGED <<idem, syncVars, rm>>

ReindexRepository ==
    /\ \E r \in Repos :
         \E cs \in ClassLists(Room(remove_repository(index, r))) :
            ReindexRepositoryCall(r, cs)
    /\ UNCHANGED <<idem, syncVars, rm>>

Clear ==
    /\ ClearCall
    /\ UNCHANGED <<idem, syncVars, rm>>

Next ==
    \/ AddClass
    \/ AddClasses
    \/ ReindexRepository
    \/ Clear

Spec == Init /\ [][Next]_vars

----------------------------------------------------------------------------
(* Arguments the properties quantify over *)

ClassNameArgs == {c.name : c \in Classes} \cup {<<>>, <<120>>}
FqnArgs == {c.fully_qualified_name : c \in Classes} \cup {<<112, 46, 119>>, <<>>}
PackageArgs == {c.package : c \in Classes} \cup {<<>>, <<120>>}
\* "r", "gV", "gv", "GV", "g", "V", ""
MethodNameArgs == {<<114>>, <<103, 86>>, <<103, 118>>, <<71, 86>>, <<103>>, <<86>>, <<>>}
RepoArgs == Repos \cup {"R3", ""}
OptionalOf(S) == {<<>>} \cup {<<x>> : x \in S}

AllLookupsEmpty(idx) ==
    /\ idx.class_index = <<>>
    /\ Flatten(idx.class_name_index) = <<>>
    /\ Flatten(idx.package_index) = <<>>
    /\ Flatten(idx.repository_index) = <<>>
    /\ Flatten(idx.method_index) = <<>>
    /\ Flatten(idx.class_method_index) = <<>>

\* (class, method) pairs of a class list, in add_class order, for one method name
RECURSIVE PairsOf(_, _)
PairsOf(cs, method_name) ==
    IF cs = <<>> THEN <<>>
    ELSE [i \in 1..Len(SelectSeq(cs[1].methods, LAMBDA m : m.name = method_name)) |->
            <<cs[1], SelectSeq(cs[1].methods, LAMBDA m : m.name = method_name)[i]>>]
         \o PairsOf(Tail(cs), method_name)

PlainPairs(ps) == [i \in 1..Len(ps) |-> <<Plain(ps[i][1]), ps[i][2]>>]

\* the last class of a list with the given FQN, as an Optional
LastWithFqn(cs, fqn) ==
    LET hits == SelectSeq(cs, LAMBDA c : c.fully_qualified_name = fqn)
    IN IF hits = <<>> THEN <<>> ELSE <<hits[Len(hits)]>>

----------------------------------------------------------------------------
(* C2: every class stored in class_index also appears in class_name_index
   under its name, in package_index under its package and in the list of
   some repository, and each of its methods appears in method_index under the
   method's name (paired with the class) and in class_method_index under the
   class's FQN. *)
ThmC2 ==
    \A i \in 1..Len(index.class_index) :
        LET c == index.class_index[i][2] IN
        /\ c \in Range(get_classes_by_name(index, c.name))
        /\ c \in Range(get_classes_by_package(index, c.package))
        /\ \E r \in DictKeys(index.repository_index) :
              c \in Range(get_classes_by_repository(index, r))
        /\ \A j \in 1..Len(c.methods) :
              /\ <<c, c.methods[j]>> \in
                    Range(get_methods_by_name(index, c.methods[j].name))
              /\ c.methods[j] \in
                    Range(get_methods_by_class(index, c.fully_qualified_name))

\* after a reindex that removed a same-FQN class of another repository's
\* sibling, a class with methods is still in class_index
WitC2 ==
    /\ last.op = "reindex_repository"
    /\ last.removed # index
    /\ Len(index.class_index) = 2
    /\ \E i \in 1..Len(index.class_index) : index.class_index[i][2].methods # <<>>

----------------------------------------------------------------------------
(* C4: after reindex_repository(R, Y) on an index that held only classes
   added under R, exactly the classes of Y are reachable: the repository list
   is Y, each name list holds Y's classes of that name, each method list holds
   the pairs of Y's classes, get_class_by_fqn returns a class of Y (the last
   one with that FQN) or None; so nothing of the replaced list that is not in
   Y is reachable. *)
ThmC4 ==
    (last.op = "reindex_repository" /\ AllLookupsEmpty(last.removed)) =>
        LET Y == last.classes
            R == last.repo
        IN /\ PlainSeq(get_classes_by_repository(index, R)) = Y
           /\ \A r \in RepoArgs \ {R} : get_classes_by_repository(index, r) = <<>>
           /\ \A n \in ClassNameArgs \cup DictKeys(index.class_name_index) :
                 PlainSeq(get_classes_by_name(index, n)) =
                    SelectSeq(Y, LAMBDA c : c.name = n)
           /\ \A m \in MethodNameArgs \cup DictKeys(index.method_index) :
                 PlainPairs(get_methods_by_name(index, m)) = PairsOf(Y, m)
           /\ \A f \in FqnArgs \cup DictKeys(index.class_index) :
                 PlainSeq(get_class_by_fqn(index, f)) = LastWithFqn(Y, f)

\* R1 held a class named W (its name is still a key); R1 was reindexed with
\* the one class w, and W is gone from every lookup
WitC4 ==
    /\ last.op = "reindex_repository"
    /\ AllLookupsEmpty(last.removed)
    /\ DictHas(last.removed.class_name_index, Widget.name)
    /\ DictHas(last.removed.method_index, m_gV.name)
    /\ last.classes = <<LowerWidget>>
    /\ get_class_by_fqn(index, Widget.fully_qualified_name) = <<>>
    /\ get_classes_by_name(index, Widget.name) = <<>>

----------------------------------------------------------------------------
(* C5: when _remove_repository(u) has run (the first phase of
   reindex_repository), get_classes_by_repository(u) is empty and no pair of
   any method_index list is owned by a class that was added under u. *)
ThmC5 ==
    last.op = "reindex_repository" =>
        /\ get_classes_by_repository(last.removed, last.repo) = <<>>
        /\ ~DictHas(last.removed.repository_index, last.repo)
        /\ \A p \in Range(Flatten(last.removed.method_index)) :
              p[1].origin # last.repo

\* u's classes were removed while another repository contributes the same
\* method name "r", which survives
WitC5 ==
    /\ last.op = "reindex_repository"
    /\ last.classes = <<>>
    /\ DictHas(last.removed.class_name_index, Widget.name)
    /\ get_methods_by_name(last.removed, m_gV.name) = <<>>
    /\ DictHas(last.removed.method_index, m_gV.name)
    /\ get_methods_by_name(last.removed, m_r.name) # <<>>

----------------------------------------------------------------------------
(* C6: removing repository u leaves, for every other repository v, every
   class of v and every pair contributed by a class of v reachable exactly as
   before, also when a class of v shares a method name or an FQN with a
   removed class. *)
OfOrigin(lst, v) == SelectSeq(lst, LAMBDA c : c.origin = v)

PairsOfOrigin(lst, v) == SelectSeq(lst, LAMBDA p : p[1].origin = v)

\* what the five lookups return of repository v's classes
ViewOf(idx, v) ==
    [by_fqn |-> [f \in FqnArgs |-> OfOrigin(get_class_by_fqn(idx, f), v)],
     by_name |-> [n \in ClassNameArgs |-> OfOrigin(get_classes_by_name(idx, n), v)],
     by_package |-> [q \in PackageArgs |-> OfOrigin(get_classes_by_package(idx, q), v)],
     by_method |-> [m \in MethodNameArgs |->
                       PairsOfOrigin(get_methods_by_name(idx, m), v)],
     by_class |-> [f \in FqnArgs |->
                      IF \E c \in Range(get_classes_by_repository(idx, v)) :
                            c.fully_qualified_name = f
                      THEN get_methods_by_class(idx, f) ELSE <<>>]]

RemovalKeepsOthers ==
    (last'.op = "reindex_repository") =>
        \A v \in Repos \ {last'.repo} : ViewOf(last'.removed, v) = ViewOf(index, v)

CexC6 == [][RemovalKeepsOthers]_vars

----------------------------------------------------------------------------
(* C7: every QueryEngine operation raises IndexNotBuiltError exactly when
   is_built() is false. *)
\* what each call of the six searching and filtering operations raises
GuardedQueryRaises(idx) ==
    {search_methods(idx, m, cn, cs).raised :
        m \in MethodNameArgs, cn \in OptionalOf(ClassNameArgs), cs \in BOOLEAN}
    \cup {search_methods_partial(idx, m, cs).raised :
            m \in MethodNameArgs, cs \in BOOLEAN}
    \cup {search_class(idx, f, cs).raised : f \in FqnArgs, cs \in BOOLEAN}
    \cup {filter_classes_by_repository(idx, r).raised : r \in RepoArgs}
    \cup {filter_classes_by_package(idx, q, r).raised :
            q \in PackageArgs, r \in OptionalOf(RepoArgs)}
    \cup {query_classes_by_name(idx, n, cs).raised :
            n \in ClassNameArgs, cs \in BOOLEAN}

RaisesNotBuilt(e) == e = "IndexNotBuiltError"

CexC7 ==
    \A e \in GuardedQueryRaises(index) \cup {get_statistics(index).raised} :
        RaisesNotBuilt(e) <=> ~is_built(index)

\* C7, as the code has it: the six searching and filtering operations do; get_statistics
\* never raises, whatever is_built() says
ThmC7 ==
    /\ \A e \in GuardedQueryRaises(index) : RaisesNotBuilt(e) <=> ~is_built(index)
    /\ get_statistics(index).raised = "none"
    /\ last.op \in {"none", "clear"} => ~is_built(index)

\* an index that was built and then cleared
WitC7 ==
    /\ last.op = "clear"
    /\ ~is_built(index)
    /\ RaisesNotBuilt(search_class(index, Widget.fully_qualified_name, TRUE).raised)

----------------------------------------------------------------------------
(* C8: is_built() is true exactly when add_class has run since construction
   or since the last clear(); a reindex that leaves no class does not reset
   it and add_classes of an empty list does not set it. *)
ThmC8 == is_built(index) <=> added

\* built, though the reindex left the index without any class
WitC8 ==
    /\ last.op = "reindex_repository"
    /\ last.classes = <<>>
    /\ get_total_classes(index) = 0
    /\ is_built(index)

----------------------------------------------------------------------------
(* C9: get_statistics() reports the number of indexed classes, of indexed
   methods, of repositories that hold at least one class and of packages that
   hold at least one class; all four are zero once the classes of the only
   repository have been removed. *)
LiveEntries(idx) == Flatten(idx.repository_index)

RECURSIVE CountMethods(_)
CountMethods(cs) == IF cs = <<>> THEN 0 ELSE Len(cs[1].methods) + CountMethods(Tail(cs))

CexC9 ==
    LET st == get_statistics(index).value
        live == LiveEntries(index)
    IN /\ st.total_classes = Cardinality({c.fully_qualified_name : c \in Range(live)})
       /\ st.total_methods = CountMethods(live)
       /\ st.total_repositories =
             Cardinality({r \in DictKeys(index.repository_index) :
                             get_classes_by_repository(index, r) # <<>>})
       /\ st.total_packages = Cardinality({c.package : c \in Range(live)})

----------------------------------------------------------------------------
(* A caller that runs clear(); add_classes(X, R); clear(); add_classes(X, R)
   on an index that already holds some classes.  `idem` holds the caller's
   position, its arguments and how many entries the index held at the start. *)

IdemInit ==
    /\ \E p \in ClassLists(MaxEntries), q \in Repos :
         /\ index = add_classes(NewIndex, p, q)
         /\ added = (p # <<>>)
         /\ last = IF p = <<>> THEN NoCall ELSE Called("add_classes")
         /\ \E X \in ClassLists(MaxEntries), R \in Repos :
              idem = [step |-> 0, classes |-> X, repo |-> R, preloaded |-> Len(p)]
    /\ SyncIdle
    /\ rm = RmIdle

IdemClear ==
    /\ idem.step \in {0, 2}
    /\ ClearCall
    /\ idem' = [idem EXCEPT !.step = @ + 1]
    /\ UNCHANGED <<syncVars, rm>>

IdemAddClasses ==
    /\ idem.step \in {1, 3}
    /\ AddClassesCall(idem.classes, idem.repo)
    /\ idem' = [idem EXCEPT !.step = @ + 1]
    /\ UNCHANGED <<syncVars, rm>>

IdemNext ==
    \/ IdemClear
    \/ IdemAddClasses

IdemSpec == IdemInit /\ [][IdemNext]_vars

\* Everything a caller can observe of an index: the result of every
\* QueryEngine operation and of every APIIndexer lookup, over the arguments
\* above.
Observations(idx) ==
    [search_methods |->
        [a \in MethodNameArgs \X OptionalOf(ClassNameArgs) \X BOOLEAN |->
            search_methods(idx, a[1], a[2], a[3])],
     search_methods_partial |->
        [a \in MethodNameArgs \X BOOLEAN |-> search_methods_partial(idx, a[1], a[2])],
     search_class |->
        [a \in FqnArgs \X BOOLEAN |-> search_class(idx, a[1], a[2])],
     filter_classes_by_repository |->
        [r \in RepoArgs |-> filter_classes_by_repository(idx, r)],
     filter_classes_by_package |->
        [a \in PackageArgs \X OptionalOf(RepoArgs) |->
            filter_classes_by_package(idx, a[1], a[2])],
     get_all_apis_from_repository |->
        [r \in RepoArgs |-> get_all_apis_from_repository(idx, r)],
     get_all_apis_from_package |->
        [a \in PackageArgs \X RepoArgs |-> get_all_apis_from_package(idx, a[1], a[2])],
     query_classes_by_name |->
        [a \in ClassNameArgs \X BOOLEAN |-> query_classes_by_name(idx, a[1], a[2])],
     get_statistics |-> get_statistics(idx),
     get_class_by_fqn |-> [f \in FqnArgs |-> get_class_by_fqn(idx, f)],
     get_classes_by_name |-> [n \in ClassNameArgs |-> get_classes_by_name(idx, n)],
     get_classes_by_package |-> [q \in PackageArgs |-> get_classes_by_package(idx, q)],
     get_classes_by_repository |->
        [r \in RepoArgs |-> get_classes_by_repository(idx, r)],
     get_methods_by_name |-> [m \in MethodNameArgs |-> get_methods_by_name(idx, m)],
     get_methods_by_class |-> [f \in FqnArgs |-> get_methods_by_class(idx, f)],
     get_all_classes |-> get_all_classes(idx),
     get_total_classes |-> get_total_classes(idx),
     get_total_methods |-> get_total_methods(idx),
     is_built |-> is_built(idx)]

(* C10: for every class list X and repository R, after
   clear(); add_classes(X, R); clear(); add_classes(X, R) the index gives the
   same get_statistics values and the same result for every query as a fresh
   index after a single add_classes(X, R). *)
ThmC10 ==
    idem.step = 4 =>
        Observations(index) = Observations(add_classes(NewIndex, idem.classes, idem.repo))

\* the sequence has run, on an index that held classes before, with a list
\* that repeats a fully-qualified name and carries methods
WitC10 ==
    /\ idem.step = 4
    /\ idem.preloaded > 0
    /\ idem.classes = <<Widget, WidgetAlt>>
    /\ get_total_methods(index) > 0

----------------------------------------------------------------------------
(* GitRepositoryManager: URLs, local paths and the local filesystem *)

\* most URLs a manager is configured with
MaxRepos == 2

RECURSIVE JoinWith(_, _)
JoinWith(parts, sep) ==
    IF parts = <<>> THEN ""
    ELSE IF Len(parts) = 1 THEN parts[1]
    ELSE parts[1] \o sep \o JoinWith(Tail(parts), sep)

\* An HttpUrl: the host's labels, the path's segments, and how many times
\* ".git" trails the text (kept apart from the text of the last segment, which
\* itself never ends with ".git")
HttpUrl(netloc, path, dotgit) == [netloc |-> netloc, path |-> path, dotgit |-> dotgit]

\* ".git" n times
RECURSIVE DotGits(_)
DotGits(n) == IF n = 0 THEN "" ELSE ".git" \o DotGits(n - 1)

\* str(url)
Str(url) ==
    "https://" \o JoinWith(url.netloc, ".") \o "/" \o JoinWith(url.path, "/")
        \o DotGits(url.dotgit)

\* text.endswith('.git')
EndsWithGit(url) == url.dotgit > 0

\* text[:-4] of a text that ends with ".git"
WithoutGit(url) == [url EXCEPT !.dotgit = @ - 1]

\* str(url)[:-4] of a URL that ends with ".git"
DropGit(url) == Str(WithoutGit(url))

Widgets == HttpUrl(<<"github", "com">>, <<"acme", "widgets">>, 0)
WidgetsGit == HttpUrl(<<"github", "com">>, <<"acme", "widgets">>, 1)
Gears == HttpUrl(<<"github", "com">>, <<"acme", "gears">>, 0)

Urls == {Widgets, WidgetsGit, Gears}

UrlLists(n) == UNION {[1..k -> Urls] : k \in 0..n}

\* parsed.path.strip('/').split('/'): the segments, the last one with the
\* ".git"s that trail it; a path that is only ".git"s is one segment
PathParts(url) ==
    IF url.path = <<>> THEN (IF url.dotgit > 0 THEN <<DotGits(url.dotgit)>> ELSE <<>>)
    ELSE [url.path EXCEPT ![Len(url.path)] = @ \o DotGits(url.dotgit)]

\* `if name.endswith('.git'): name = name[:-4]` on the last segment of a URL
\* that has one
StrippedName(url) ==
    LET stripped == IF EndsWithGit(url) THEN WithoutGit(url) ELSE url
    IN PathParts(stripped)[Len(url.path)]

\* mutant: the last segment is used as it is written
generate_local_path_unstripped(url) ==
    LET path_parts == PathParts(url)
    IN IF Len(path_parts) >= 2
       THEN path_parts[Len(path_parts) - 1] \o "_" \o path_parts[Len(path_parts)]
       ELSE JoinWith(url.netloc, "_")

\* the folder under base_local_path
generate_local_path(url) ==
    LET path_parts == PathParts(url)
    IN IF Len(path_parts) >= 2
       THEN path_parts[Len(path_parts) - 1] \o "_" \o StrippedName(url)
       ELSE JoinWith(url.netloc, "_")

RepositoryStatus == {"pending", "cloning", "syncing", "success", "failed"}

Repository(url, local_path) ==
    [url |-> url, local_path |-> local_path, status |-> "pending"]

create_repository_configs(urls) ==
    [i \in 1..Len(urls) |-> Repository(urls[i], generate_local_path(urls[i]))]

\* What a local path holds: nothing, a plain file, a directory without .git,
\* or a clone with its origin URL and its checked-out branch
NoRemote == HttpUrl(<<>>, <<>>, 0)
NonClone(kind) ==
    [kind |-> kind, origin |-> NoRemote, branch |-> "", head |-> "", origin_main |-> ""]
Absent == NonClone("absent")
PlainFile == NonClone("file")
PlainDir == NonClone("dir")

\* A clone: its origin URL, the branch checked out, the commit the working tree
\* stands at (HEAD) and the commit its origin/main ref names
LocalClone(origin, branch, head, origin_main) ==
    [kind |-> "repo", origin |-> origin, branch |-> branch, head |-> head,
     origin_main |-> origin_main]

\* the commits main has upstream; "local" is a state of the working tree that
\* upstream never had (local commits, local modifications)
Commits == {"c1", "c2"}

Branches == {"main", "other", "detached"}
LocalPaths == {generate_local_path(u) : u \in Urls}

\* the clones a manager may find when it starts: of the expected repository or
\* of another, on main as upstream had it, on another branch with local
\* commits, or with a detached HEAD
InitialOrigins == {Widgets}
LocalStates == {<<"main", "c1">>, <<"other", "local">>, <<"detached", "local">>}
InitialEntries ==
    {Absent, PlainFile, PlainDir}
        \cup {LocalClone(o, w[1], w[2], "c1") : o \in InitialOrigins, w \in LocalStates}

\* os_error: the path cannot be accessed (OSError / PermissionError)
repository_exists(f, repository, os_error) ==
    IF os_error THEN FALSE
    ELSE IF f[repository.local_path].kind = "absent" THEN FALSE
    ELSE IF f[repository.local_path].kind = "file" THEN FALSE
    ELSE IF f[repository.local_path].kind = "dir" THEN FALSE
    ELSE TRUE

\* repo.remote('origin') raises ValueError when the clone has no remote of
\* that name; the except clause of _validate_repository_remote names GitError
\* and InvalidGitRepositoryError only
validate_raises(f, repository, git_error) ==
    IF ~git_error /\ f[repository.local_path].origin = NoRemote
    THEN "ValueError" ELSE "none"

\* git_error: the clone or its origin cannot be read (GitError)
validate_repository_remote(f, repository, git_error) ==
    IF git_error THEN FALSE
    ELSE LET origin == f[repository.local_path].origin
             remote_url == Str(origin)
         IN IF remote_url = Str(repository.url) THEN TRUE
            ELSE IF /\ EndsWithGit(origin) /\ ~EndsWithGit(repository.url)
                    /\ DropGit(origin) = Str(repository.url) THEN TRUE
            ELSE IF /\ ~EndsWithGit(origin) /\ EndsWithGit(repository.url)
                    /\ remote_url = DropGit(repository.url) THEN TRUE
            ELSE FALSE

----------------------------------------------------------------------------
(* Exceptions and the handlers that convert them *)

Error(class, message, details) ==
    [class |-> class, message |-> message, details |-> details]

\* RepositoryError and its subclasses
RepositoryErrors ==
    {"RepositoryError", "RepositoryCloneError", "RepositorySyncError",
     "RepositoryNotFoundError"}

\* every class an `except Exception` clause catches
Exceptions ==
    RepositoryErrors
        \cup {"GitCommandError", "InvalidGitRepositoryError", "OSError", "Exception"}

\* what a failed `git clone` can say
GitTexts ==
    {"remote: Repository not found.",
     "fatal: repository '/srv/git/widgets' does not exist",
     "fatal: Remote branch main not found in upstream origin"}

\* the words of a text, in order
Tokens(text) ==
    CASE text = "remote: Repository not found." ->
            <<"remote:", "Repository", "not", "found", ".">>
      [] text = "fatal: repository '/srv/git/widgets' does not exist" ->
            <<"fatal:", "repository", "'/srv/git/widgets'", "does", "not", "exist">>
      [] text = "fatal: Remote branch main not found in upstream origin" ->
            <<"fatal:", "Remote", "branch", "main", "not", "found", "in", "upstream",
              "origin">>
      [] OTHER -> <<text>>

\* "Repository not found", "does not exist"
NotFoundSignals == {<<"Repository", "not", "found">>, <<"does", "not", "exist">>}

\* what clone_from can fail with
CloneFromErrors ==
    {Error("GitCommandError", t, "") : t \in GitTexts}
    \cup {Error("Exception", "Unexpected error", "")}

\* mutant: any "not found" counts as the signal
clone_raises_any_not_found(e) ==
    IF e.class = "GitCommandError"
    THEN IF \/ Contains(<<"not", "found">>, Tokens(e.message))
            \/ Contains(<<"does", "not", "exist">>, Tokens(e.message))
         THEN Error("RepositoryNotFoundError", "Repository not found or inaccessible",
                    e.message)
         ELSE Error("RepositoryCloneError", "Git command failed", e.message)
    ELSE Error("RepositoryCloneError", "Unexpected error during clone", e.message)

\* the except clauses of _clone_repository
clone_raises(e) ==
    IF e.class = "GitCommandError"
    THEN IF \E signal \in NotFoundSignals : Contains(signal, Tokens(e.message))
         THEN Error("RepositoryNotFoundError", "Repository not found or inaccessible",
                    e.message)
         ELSE Error("RepositoryCloneError", "Git command failed", e.message)
    ELSE Error("RepositoryCloneError", "Unexpected error during clone", e.message)

\* the except clauses of _sync_repository
sync_raises(e) ==
    IF e.class = "InvalidGitRepositoryError"
    THEN Error("RepositorySyncError", "Invalid Git repository", e.message)
    ELSE IF e.class = "GitCommandError"
    THEN Error("RepositorySyncError", "Git command failed", e.message)
    ELSE Error("RepositorySyncError", "Unexpected error during sync", e.message)

\* mutant: only clone and sync errors are caught
process_handler_clone_sync_only(e) ==
    IF e.class \in {"RepositoryCloneError", "RepositorySyncError"}
    THEN [caught |-> TRUE, message |-> e.message, error_details |-> e.details]
    ELSE [caught |-> FALSE, message |-> "", error_details |-> ""]

\* mutant: the failure result carries no details
process_handler_without_details(e) ==
    IF e.class \in Exceptions
    THEN [caught |-> TRUE, message |-> e.message, error_details |-> "None"]
    ELSE [caught |-> FALSE, message |-> "", error_details |-> ""]

\* the except clauses of process_repositories; an exception that neither
\* clause matches propagates to the caller
process_handler(e) ==
    IF e.class \in RepositoryErrors
    THEN [caught |-> TRUE, message |-> e.message, error_details |-> e.details]
    ELSE IF e.class \in Exceptions
    THEN [caught |-> TRUE, message |-> "Unexpected error", error_details |-> e.message]
    ELSE [caught |-> FALSE, message |-> "", error_details |-> ""]

RepositoryResult(i, success, message, error_details) ==
    [repository |-> i, success |-> success, message |-> message,
     error_details |-> error_details]

\* the RepositorySyncError a step of _sync_repository raises by itself
StepError(message, details) == Error("RepositorySyncError", message, details)

\* an exception of no particular class, raised by a library call
Untyped == Error("Exception", "Unexpected error", "")

----------------------------------------------------------------------------
(* process_repositories, one step at a time.  `cur` is the position of the
   loop in self.repositories, `pc` the statement it has reached, `results` the
   list being built (a result refers to its record by position: it holds the
   record itself, not a copy), `runs` whether a call was made before.
   `attempts` lists the operations the call has begun; `trace` lists the steps
   the current operation has performed, with the HEAD it found, the commit it
   fetched, whether the existence check met an I/O error, and the class of the
   exception that ended it. *)

InProgress == {"exists", "clone", "sync", "fetch", "checkout", "reset"}

WithEntry(f, repository, entry) == [f EXCEPT ![repository.local_path] = entry]

Entry == fs[repositories[cur].local_path]

Attempt(i, op, exists) == [repository |-> i, op |-> op, exists |-> exists]

Did(step) == [trace EXCEPT !.steps = Append(@, step)]

\* the step of trace t raises an exception of the given class
Raise(t, class) == [t EXCEPT !.error = class]

\* the loop moves to the next record, or the call returns
Advance ==
    /\ cur' = cur + 1
    /\ pc' = IF cur = Len(repositories) THEN "returned" ELSE "exists"

\* mutant: a failed operation is reported and the record is tried again
FailedRetried(e, f, t) ==
    /\ fs' = f
    /\ trace' = t
    /\ repositories' = [repositories EXCEPT ![cur].status = "failed"]
    /\ results' = Append(results,
          RepositoryResult(cur, FALSE, process_handler(e).message,
                           process_handler(e).error_details))
    /\ cur' = cur
    /\ pc' = "exists"
    /\ UNCHANGED <<runs, attempts, idem, idxVars, rm>>

\* the operation ends with exception e, leaving the filesystem as f
Failed(e, f, t) ==
    /\ fs' = f
    /\ trace' = t
    /\ repositories' = [repositories EXCEPT ![cur].status = "failed"]
    /\ IF process_handler(e).caught
       THEN /\ results' = Append(results,
                  RepositoryResult(cur, FALSE, process_handler(e).message,
                                   process_handler(e).error_details))
            /\ Advance
       ELSE /\ results' = results
            /\ cur' = cur
            /\ pc' = "raised"
    /\ UNCHANGED <<runs, attempts, idem, idxVars, rm>>

Succeeded(message, f, t) ==
    /\ fs' = f
    /\ trace' = t
    /\ repositories' = [repositories EXCEPT ![cur].status = "success"]
    /\ results' = Append(results, RepositoryResult(cur, TRUE, message, "None"))
    /\ Advance
    /\ UNCHANGED <<runs, attempts, idem, idxVars, rm>>

Continue(next_pc, f, t) ==
    /\ fs' = f
    /\ trace' = t
    /\ pc' = next_pc
    /\ UNCHANGED <<repositories, cur, results, runs, attempts, idem, idxVars, rm>>

SyncInit ==
    /\ index = NewIndex
    /\ added = FALSE
    /\ last = NoCall
    /\ idem = IdleScript
    /\ rm = RmIdle
    /\ \E urls \in UrlLists(MaxRepos) : repositories = create_repository_configs(urls)
    /\ fs \in [LocalPaths -> InitialEntries]
    /\ pc = "idle"
    /\ cur = 0
    /\ results = <<>>
    /\ runs = "none"
    /\ attempts = <<>>
    /\ trace = NoTrace

ProcessRepositories ==
    /\ pc \in {"idle", "returned", "raised"}
    /\ results' = <<>>
    /\ attempts' = <<>>
    /\ trace' = NoTrace
    /\ cur' = 1
    /\ pc' = IF repositories = <<>> THEN "returned" ELSE "exists"
    /\ runs' = IF runs = "none" THEN "first" ELSE "later"
    /\ UNCHANGED <<repositories, fs, idem, idxVars, rm>>

\* mutant: the status is left as it was
BeginSyncKeepsStatus ==
    /\ pc = "exists"
    /\ repository_exists(fs, repositories[cur], FALSE)
    /\ pc' = "sync"
    /\ attempts' = Append(attempts, Attempt(cur, "sync", TRUE))
    /\ trace' = [NoTrace EXCEPT !.head_before = Entry.head]
    /\ UNCHANGED <<repositories, fs, cur, results, runs, idem, idxVars, rm>>

BeginSync ==
    /\ pc = "exists"
    /\ repository_exists(fs, repositories[cur], FALSE)
    /\ repositories' = [repositories EXCEPT ![cur].status = "syncing"]
    /\ pc' = "sync"
    /\ attempts' =
         Append(attempts,
                Attempt(cur, "sync", repository_exists(fs, repositories[cur], FALSE)))
    /\ trace' = [NoTrace EXCEPT !.head_before = Entry.head]
    /\ UNCHANGED <<fs, cur, results, runs, idem, idxVars, rm>>

\* mutant: the clone is begun whatever _repository_exists returns
BeginCloneUnchecked ==
    /\ pc = "exists"
    /\ \E os_error \in BOOLEAN :
         /\ attempts' =
              Append(attempts,
                     Attempt(cur, "clone",
                             repository_exists(fs, repositories[cur], os_error)))
         /\ trace' = [NoTrace EXCEPT !.os_error = os_error]
    /\ repositories' = [repositories EXCEPT ![cur].status = "cloning"]
    /\ pc' = "clone"
    /\ UNCHANGED <<fs, cur, results, runs, idem, idxVars, rm>>

BeginClone ==
    /\ pc = "exists"
    /\ \E os_error \in BOOLEAN :
         /\ ~repository_exists(fs, repositories[cur], os_error)
         /\ attempts' =
              Append(attempts,
                     Attempt(cur, "clone",
                             repository_exists(fs, repositories[cur], os_error)))
         /\ trace' = [NoTrace EXCEPT !.os_error = os_error]
    /\ repositories' = [repositories EXCEPT ![cur].status = "cloning"]
    /\ pc' = "clone"
    /\ UNCHANGED <<fs, cur, results, runs, idem, idxVars, rm>>

\* exists(), rmtree() or mkdir() raises: always so for a plain file, which
\* rmtree() refuses, and whenever the path cannot be accessed
CloneBlocked ==
    /\ pc = "clone"
    /\ Failed(clone_raises(Error("OSError", "Cannot access path", "")), fs,
              Raise(trace, "OSError"))

\* what _clone_repository does before clone_from when the path is accessible
CloneSteps == IF Entry.kind = "absent" THEN <<"clone_from">> ELSE <<"rmtree", "clone_from">>

CloneFails ==
    /\ pc = "clone"
    /\ Entry.kind # "file"
    /\ \E e \in CloneFromErrors :
         Failed(clone_raises(e), WithEntry(fs, repositories[cur], Absent),
                Raise([trace EXCEPT !.steps = CloneSteps], e.class))

CloneSucceeds ==
    /\ pc = "clone"
    /\ Entry.kind # "file"
    /\ \E upstream \in Commits :
         Succeeded("Repository cloned successfully",
                   WithEntry(fs, repositories[cur],
                             LocalClone(repositories[cur].url, "main", upstream, upstream)),
                   [trace EXCEPT !.steps = CloneSteps])

\* git.Repo(local_path) raises
InvalidRepo ==
    Failed(sync_raises(Error("InvalidGitRepositoryError", "Invalid repository", "")),
           fs, Raise(trace, "InvalidGitRepositoryError"))

\* mutant: the result of the validation is ignored
SyncValidateIgnored ==
    /\ pc = "sync"
    /\ \/ InvalidRepo
       \/ Continue("fetch", fs, Did("validate"))

SyncValidate ==
    /\ pc = "sync"
    /\ \/ InvalidRepo
       \/ \E git_error \in BOOLEAN :
            IF validate_repository_remote(fs, repositories[cur], git_error)
            THEN Continue("fetch", fs, Did("validate"))
            ELSE Failed(sync_raises(StepError(
                          "Repository remote URL does not match expected URL",
                          "Local path")),
                        fs, Raise(Did("validate"), "RepositorySyncError"))

SyncFetch ==
    /\ pc = "fetch"
    /\ \/ \E upstream \in Commits :
            Continue("checkout",
                     WithEntry(fs, repositories[cur], [Entry EXCEPT !.origin_main = upstream]),
                     [Did("fetch") EXCEPT !.fetched = upstream])
       \/ Failed(sync_raises(StepError("Failed to fetch from remote", "GitCommandError")),
                 fs, Raise(Did("fetch"), "GitCommandError"))
       \/ Failed(sync_raises(Untyped), fs, Raise(Did("fetch"), Untyped.class))

\* `git checkout main`, which moves to whatever the local main holds, then
\* `git checkout -b main origin/main` when that fails
Checkout ==
    \/ \E local_main \in Commits \cup {"local"} :
         Continue("reset",
                  WithEntry(fs, repositories[cur],
                            [Entry EXCEPT !.branch = "main", !.head = local_main]),
                  Did("checkout"))
    \/ Continue("reset",
                WithEntry(fs, repositories[cur],
                          [Entry EXCEPT !.branch = "main", !.head = Entry.origin_main]),
                [trace EXCEPT !.steps = @ \o <<"checkout", "checkout -b">>])
    \/ Failed(sync_raises(StepError("Cannot checkout main branch", "GitCommandError")),
              fs,
              Raise([trace EXCEPT !.steps = @ \o <<"checkout", "checkout -b">>],
                    "GitCommandError"))

\* mutant: main is checked out even when it is the active branch
SyncCheckoutAlways ==
    /\ pc = "checkout"
    /\ Checkout

\* repo.active_branch raises TypeError when HEAD is detached
SyncCheckout ==
    /\ pc = "checkout"
    /\ IF Entry.branch = "detached"
       THEN Failed(sync_raises(Error("TypeError", "HEAD is a detached symbolic reference",
                                     "")),
                   fs, Raise(trace, "TypeError"))
       ELSE IF Entry.branch = "main"
       THEN Continue("reset", fs, trace)
       ELSE Checkout

\* git reset --hard origin/main raises
ResetFails ==
    \/ Failed(sync_raises(StepError("Failed to reset to origin/main", "GitCommandError")),
              fs, Raise(Did("reset"), "GitCommandError"))
    \/ Failed(sync_raises(Untyped), fs, Raise(Did("reset"), Untyped.class))

\* mutant: the working tree is left where checkout put it
SyncResetKeepsHead ==
    /\ pc = "reset"
    /\ \/ Succeeded("Repository synchronized successfully", fs, Did("reset"))
       \/ ResetFails

SyncReset ==
    /\ pc = "reset"
    /\ \/ Succeeded("Repository synchronized successfully",
                    WithEntry(fs, repositories[cur],
                              [Entry EXCEPT !.head = Entry.origin_main]),
                    Did("reset"))
       \/ ResetFails

SyncNext ==
    \/ ProcessRepositories
    \/ BeginSync
    \/ BeginClone
    \/ CloneBlocked
    \/ CloneFails
    \/ CloneSucceeds
    \/ SyncValidate
    \/ SyncFetch
    \/ SyncCheckout
    \/ SyncReset

SyncSpec == SyncInit /\ [][SyncNext]_vars

----------------------------------------------------------------------------
(* C1: process_repositories returns exactly one result per configured
   repository, in input order, whatever the outcome of each repository: an
   exception raised while cloning or syncing one repository, RepositoryError
   or not, becomes a failure result of that repository; it never reaches the
   caller and never keeps the later repositories from being processed. *)
InOrder(rs) == \A i \in 1..Len(rs) : rs[i].repository = i

ThmC1 ==
    /\ pc # "raised"
    /\ InOrder(results)
    /\ pc = "returned" => Len(results) = Len(repositories)
    /\ pc \in InProgress =>
         /\ cur \in 1..Len(repositories)
         /\ Len(results) = cur - 1
    /\ \A i \in 1..Len(results) :
         ~results[i].success => repositories[i].status = "failed"

\* a call has returned: the first repository failed with an exception that is
\* not a git error, the second one was cloned all the same
WitC1 ==
    /\ pc = "returned"
    /\ Len(results) = 2
    /\ ~results[1].success
    /\ results[1].message = "Unexpected error during clone"
    /\ results[1].error_details = "Unexpected error"
    /\ results[2].success
    /\ results[2].message = "Repository cloned successfully"

(* C3: the status of a Repository record follows
   Pending -> (Cloning | Syncing) -> {Success, Failed}: within one
   process_repositories call it is set to Cloning or Syncing before it is set
   to Success or Failed, and a later call drives a record that is in Success
   or Failed through Cloning or Syncing again, overwriting the status of the
   same record; no record is created. *)
Settled == {"success", "failed"}
Driven == {"cloning", "syncing"}

StatusInvariant ==
    /\ \A i \in 1..Len(repositories) :
         /\ repositories[i].status \in RepositoryStatus
         /\ repositories[i].status \in Driven <=> (pc \in InProgress \ {"exists"} /\ cur = i)
         /\ repositories[i].status = "pending" <=>
               (runs = "none" \/ (runs = "first" /\ (i > cur \/ (i = cur /\ pc = "exists"))))
    /\ pc = "clone" => repositories[cur].status = "cloning"
    /\ pc \in {"sync", "fetch", "checkout", "reset"} =>
         repositories[cur].status = "syncing"

StatusStep ==
    /\ Len(repositories') = Len(repositories)
    /\ \A i \in 1..Len(repositories) :
         /\ repositories'[i].url = repositories[i].url
         /\ repositories'[i].local_path = repositories[i].local_path
         /\ repositories'[i].status # repositories[i].status =>
               \/ /\ repositories[i].status \in {"pending"} \cup Settled
                  /\ repositories'[i].status \in Driven
               \/ /\ repositories[i].status \in Driven
                  /\ repositories'[i].status \in Settled
    \* a record is driven when its turn comes, and settled when its result is added
    /\ (pc = "exists" /\ pc' # "exists") => repositories'[cur].status \in Driven
    /\ Len(results') > Len(results) =>
         /\ repositories[cur].status \in Driven
         /\ repositories'[cur].status \in Settled
         /\ results'[Len(results')].repository = cur

ThmC3 == []StatusInvariant /\ [][StatusStep]_vars

\* a second call is syncing the first record again while the second record
\* still shows the failure of the first call
WitC3 ==
    /\ runs = "later"
    /\ Len(repositories) = 2
    /\ cur = 1
    /\ pc = "sync"
    /\ repositories[1].status = "syncing"
    /\ repositories[2].status = "failed"

(* C11: within one process_repositories call every repository gets exactly
   one operation: the list of operations begun has one entry per record whose
   turn has come, in order, that entry is a sync exactly when
   _repository_exists returned true for the record and a clone otherwise, and
   every result reports the one operation of its record: a failure is
   reported once, the record is not tried again, and a failed sync is not
   followed by a clone nor a failed clone by a sync. *)
CloneMessages ==
    {"Repository cloned successfully", "Repository not found or inaccessible",
     "Git command failed", "Unexpected error during clone"}

SyncMessages ==
    {"Repository synchronized successfully", "Invalid Git repository",
     "Git command failed", "Unexpected error during sync"}

ThmC11 ==
    /\ pc = "idle" => attempts = <<>>
    /\ pc = "exists" => Len(attempts) = cur - 1
    /\ pc \in InProgress \ {"exists"} => Len(attempts) = cur
    /\ pc = "returned" => Len(attempts) = Len(repositories)
    /\ Len(results) <= Len(attempts)
    /\ Len(attempts) <= Len(results) + 1
    /\ \A i \in 1..Len(attempts) :
         /\ attempts[i].repository = i
         /\ attempts[i].op \in {"clone", "sync"}
         /\ attempts[i].op = "sync" <=> attempts[i].exists
    /\ \A i \in 1..Len(results) :
         /\ results[i].repository = attempts[i].repository
         /\ attempts[i].op = "clone" => results[i].message \in CloneMessages
         /\ attempts[i].op = "sync" => results[i].message \in SyncMessages

\* a call has returned: the sync of the first record failed and was not
\* followed by a clone, the clone of the second failed and was not tried again
WitC11 ==
    /\ pc = "returned"
    /\ Len(attempts) = 2
    /\ attempts[1].op = "sync"
    /\ ~results[1].success
    /\ attempts[2].op = "clone"
    /\ ~results[2].success
    /\ repositories[1].local_path = repositories[2].local_path

(* C12: a repository whose local path is absent is cloned: the clone path is
   taken, and when clone_from succeeds _repository_exists is true afterwards
   and the path holds a clone of the record's URL.  A record whose local path
   holds a clone takes the sync path, in the same call sequence or under a
   manager created later over the same base directory, unless the existence
   check itself met an I/O error; a sync performs no clone, keeps the local
   path of the record, and neither creates nor removes anything under the
   base directory. *)
SyncSteps == {"sync", "fetch", "checkout", "reset"}

StepC12 ==
    /\ (pc = "exists" /\ pc' # "exists" /\ Entry.kind = "absent") =>
          /\ pc' = "clone"
          /\ attempts'[cur].op = "clone"
    /\ (pc = "clone" /\ Len(results') > Len(results) /\ results'[cur].success) =>
          /\ repository_exists(fs', repositories[cur], FALSE)
          /\ fs'[repositories[cur].local_path].origin = repositories[cur].url
          /\ repositories'[cur].local_path = repositories[cur].local_path
          /\ \A p \in LocalPaths \ {repositories[cur].local_path} : fs'[p] = fs[p]
    /\ (pc = "exists" /\ pc' # "exists" /\ Entry.kind = "repo") =>
          \/ /\ pc' = "sync"
             /\ attempts'[cur].op = "sync"
          \/ /\ pc' = "clone"
             /\ trace'.os_error
    /\ pc \in SyncSteps =>
          /\ \A i \in 1..Len(trace'.steps) : trace'.steps[i] \notin {"rmtree", "clone_from"}
          /\ repositories'[cur].local_path = repositories[cur].local_path
          /\ \A p \in LocalPaths :
               /\ fs'[p].kind = fs[p].kind
               /\ fs'[p].origin = fs[p].origin

ThmC12 == [][StepC12]_vars

\* a later call has synchronized the clone of Gears, which only an earlier
\* clone by process_repositories can have made
WitC12 ==
    /\ runs = "later"
    /\ pc = "returned"
    /\ Len(repositories) = 1
    /\ repositories[1].url = Gears
    /\ attempts[1].op = "sync"
    /\ results[1].success
    /\ results[1].message = "Repository synchronized successfully"
    /\ fs[repositories[1].local_path].origin = Gears

(* C13: whenever _sync_repository has reported success, the clone has main
   checked out and its HEAD is the commit origin/main had at the fetch of that
   sync, whatever branch and commit the sync found; a sync that fetches the
   commit HEAD already had therefore leaves the commit as it was. *)
LastSyncSucceeded ==
    /\ Len(results) >= 1
    /\ Len(attempts) = Len(results)
    /\ attempts[Len(results)].op = "sync"
    /\ results[Len(results)].success

LastEntry == fs[repositories[Len(results)].local_path]

ThmC13 ==
    LastSyncSucceeded =>
        /\ trace.fetched \in Commits
        /\ LastEntry.branch = "main"
        /\ LastEntry.head = trace.fetched
        /\ LastEntry.origin_main = trace.fetched
        /\ trace.head_before = trace.fetched => LastEntry.head = trace.head_before

\* a sync has succeeded on a clone it found on another branch with local
\* commits: main is checked out and the local commits are gone
WitC13 ==
    /\ LastSyncSucceeded
    /\ trace.head_before = "local"
    /\ trace.steps = <<"validate", "fetch", "checkout", "reset">>
    /\ LastEntry.head = "c2"

(* C14: when the origin of the clone at a record's local path is not the
   record's URL (a trailing ".git" on either side apart), the sync of that
   record ends as a sync failure and the record is Failed; the sync gets no
   further than the validation: no fetch, checkout or reset is performed. *)
LastWasSync ==
    /\ Len(results) >= 1
    /\ Len(attempts) = Len(results)
    /\ attempts[Len(results)].op = "sync"

Mismatch(repository) == ~validate_repository_remote(fs, repository, FALSE)

ThmC14 ==
    /\ (pc \in SyncSteps /\ Mismatch(repositories[cur])) =>
          /\ pc = "sync"
          /\ trace.steps = <<>>
    /\ (LastWasSync /\ Mismatch(repositories[Len(results)])) =>
          /\ ~results[Len(results)].success
          /\ results[Len(results)].message \in SyncMessages
          /\ repositories[Len(results)].status = "failed"
          /\ trace.steps \in {<<>>, <<"validate">>}

\* the sync of a record whose path holds a clone of another repository has
\* failed at the validation
WitC14 ==
    /\ LastWasSync
    /\ Mismatch(repositories[Len(results)])
    /\ trace.steps = <<"validate">>
    /\ results[Len(results)].error_details =
          "Repository remote URL does not match expected URL"
    /\ repositories[Len(results)].status = "failed"

(* C15: a sync executes validate, fetch, checkout, reset in this order; the
   checkout is executed exactly when main is not the active branch, and
   `checkout -b main origin/main` only after `checkout main`.  When a git
   command fails at fetch, at the checkout with its fallback, or at reset, the
   sync ends as a sync failure whose detail names that step; when a step ends
   with any other exception (repo.active_branch on a detached HEAD, an
   exception of the library that is no git command error) the sync ends as a
   sync failure whose detail is the text of that exception.  In every case
   the record is Failed and no later step is executed. *)
SyncOrders ==
    {<<>>, <<"validate">>, <<"validate", "fetch">>,
     <<"validate", "fetch", "checkout">>,
     <<"validate", "fetch", "checkout", "checkout -b">>,
     <<"validate", "fetch", "reset">>,
     <<"validate", "fetch", "checkout", "reset">>,
     <<"validate", "fetch", "checkout", "checkout -b", "reset">>}

StepMessage(step) ==
    CASE step = "fetch" -> "Failed to fetch from remote"
      [] step = "checkout -b" -> "Cannot checkout main branch"
      [] step = "reset" -> "Failed to reset to origin/main"
      [] OTHER -> ""

LastStep == trace.steps[Len(trace.steps)]

LastSyncFailed == LastWasSync /\ ~results[Len(results)].success

OrderC15 ==
    /\ (pc \in SyncSteps \/ LastWasSync) => trace.steps \in SyncOrders
    /\ pc = "sync" => trace.steps = <<>>
    /\ pc = "fetch" => trace.steps = <<"validate">>
    /\ pc = "checkout" => trace.steps = <<"validate", "fetch">>
    /\ pc = "reset" => (Len(trace.steps) >= 2 /\ LastStep # "reset")
    /\ (LastWasSync /\ results[Len(results)].success) => LastStep = "reset"

FailureC15 ==
    LastSyncFailed =>
        /\ repositories[Len(results)].status = "failed"
        /\ results[Len(results)].message \in SyncMessages
        /\ trace.error # ""
        /\ trace.error = "GitCommandError" =>
              /\ LastStep \in {"fetch", "checkout -b", "reset"}
              /\ results[Len(results)].error_details = StepMessage(LastStep)
        /\ trace.error \in {"TypeError", "Exception"} =>
              /\ Len(trace.steps) >= 2
              /\ results[Len(results)].error_details \in
                    {"HEAD is a detached symbolic reference", "Unexpected error"}

StepC15 ==
    pc \in SyncSteps =>
        /\ \/ trace'.steps = trace.steps
           \/ /\ Len(trace'.steps) > Len(trace.steps)
              /\ SubSeq(trace'.steps, 1, Len(trace.steps)) = trace.steps
        /\ pc = "checkout" =>
              IF Entry.branch = "main"
              THEN trace'.steps = trace.steps /\ pc' = "reset"
              ELSE IF Entry.branch = "detached"
              THEN trace'.steps = trace.steps /\ pc' # "reset"
              ELSE trace'.steps[Len(trace.steps) + 1] = "checkout"
        /\ Len(results') > Len(results) => trace'.steps \in SyncOrders

ThmC15 == [](OrderC15 /\ FailureC15) /\ [][StepC15]_vars

\* the fallback checkout of a clone found on another branch has failed: the
\* sync stopped there, before the reset, and its detail names the checkout
WitC15 ==
    /\ LastSyncFailed
    /\ trace.steps = <<"validate", "fetch", "checkout", "checkout -b">>
    /\ trace.error = "GitCommandError"
    /\ results[Len(results)].error_details = "Cannot checkout main branch"
    /\ repositories[Len(results)].status = "failed"

\* as first stated: every failure at fetch, checkout or reset has a detail
\* that names the failing step
CexC15 ==
    (LastSyncFailed /\ Len(trace.steps) >= 2) =>
        results[Len(results)].error_details \in
            {StepMessage("fetch"), StepMessage("checkout -b"), StepMessage("reset")}

(* C16: a failed clone is reported as RepositoryNotFoundError exactly when
   clone_from raised a git command error whose text holds "Repository not
   found" or "does not exist", as RepositoryCloneError "Git command failed"
   for every other git command error, and as RepositoryCloneError "Unexpected
   error during clone" for every other exception; in all three cases the
   record is Failed. *)
LastCloneFailed ==
    /\ Len(results) >= 1
    /\ Len(attempts) = Len(results)
    /\ attempts[Len(results)].op = "clone"
    /\ ~results[Len(results)].success

SignalTexts ==
    {"remote: Repository not found.",
     "fatal: repository '/srv/git/widgets' does not exist"}

ThmC16 ==
    LastCloneFailed =>
        LET result == results[Len(results)]
            git == trace.error = "GitCommandError"
        IN /\ repositories[Len(results)].status = "failed"
           /\ trace.error \in {"GitCommandError", "OSError", "Exception"}
           /\ result.message = "Repository not found or inaccessible" <=>
                 (git /\ result.error_details \in SignalTexts)
           /\ result.message = "Git command failed" <=>
                 (git /\ result.error_details \notin SignalTexts)
           /\ result.message = "Unexpected error during clone" <=> ~git

\* a clone has failed with a git error that says "not found" of a branch, not
\* of the repository: it is reported as a clone failure
WitC16 ==
    /\ LastCloneFailed
    /\ trace.error = "GitCommandError"
    /\ results[Len(results)].error_details =
          "fatal: Remote branch main not found in upstream origin"
    /\ results[Len(results)].message = "Git command failed"
    /\ repositories[Len(results)].status = "failed"

(* C18: in every result process_repositories returns, success is true exactly
   when the status of the result's repository is Success; otherwise that
   status is Failed, the message is not empty and error_details is not null.
   When process_repositories returns, no repository is Pending, Cloning or
   Syncing. *)
ThmC18 ==
    pc = "returned" =>
        /\ \A i \in 1..Len(results) :
             LET repository == repositories[results[i].repository]
             IN /\ results[i].success <=> repository.status = "success"
                /\ ~results[i].success =>
                      /\ repository.status = "failed"
                      /\ results[i].message # ""
                      /\ results[i].error_details # "None"
        /\ \A i \in 1..Len(repositories) : repositories[i].status \in Settled

\* a call has returned one success and one failure
WitC18 ==
    /\ pc = "returned"
    /\ Len(results) = 2
    /\ results[1].success
    /\ repositories[1].status = "success"
    /\ ~results[2].success
    /\ repositories[2].status = "failed"
    /\ results[2].error_details # "None"

(* C19: a manager holds at most one repository record per URL: no two records
   of self.repositories have the same url, however often the URL occurs in the
   list the manager was configured with and however often it is processed. *)
CexC19 ==
    \A i, j \in 1..Len(repositories) :
        repositories[i].url = repositories[j].url => i = j

----------------------------------------------------------------------------
(* RepositoryManager (repository/manager.py).  `rm` holds the manager and the
   base directory it works in: the configured urls and auto_update, the dict
   self.repositories (url -> RepositoryMetadata), the disk (directory name ->
   what is there), the operation under way with the position of its loop, the
   number of operations begun, which also serves as the clock of
   datetime.now(), and the URLs the operation has attempted so far. *)

\* most operations begun on one manager
MaxCalls == 2

\* None as the value of last_cloned / last_updated
NoTime == 0

\* url.rstrip("/").split("/")[-1], without a trailing ".git"
\* url.rstrip("/").split("/")[-1], less one trailing ".git"; a URL without a
\* path ends with its host
get_repo_name_from_url(url) ==
    IF url.path # <<>> THEN StrippedName(url)
    ELSE IF url.dotgit = 0 THEN JoinWith(url.netloc, ".")
    ELSE DotGits(url.dotgit - 1)

RepoNames == {get_repo_name_from_url(u) : u \in Urls}

RepositoryMetadata(url, local_path, last_cloned, last_updated, commit_hash) ==
    [url |-> url, branch |-> "main", local_path |-> local_path,
     last_cloned |-> last_cloned, last_updated |-> last_updated,
     commit_hash |-> commit_hash]

\* what a path under local_base_path holds; a clone has the origin it was
\* cloned from and the commit its HEAD names
NoPath == [kind |-> "absent", head |-> "", origin |-> NoRemote]
NotARepo == [kind |-> "dir", head |-> "", origin |-> NoRemote]
GitRepo(origin, head) == [kind |-> "repo", head |-> head, origin |-> origin]

InitialDisk == {NoPath, NotARepo} \cup {GitRepo(o, "c1") : o \in InitialOrigins}

\* local_path.exists() and is_git_repository(local_path)
is_git_repository(disk, local_path) == disk[local_path].kind = "repo"

get_current_commit_hash(disk, local_path) == disk[local_path].head

\* _clone_new_repository, once clone_repository has returned
clone_new_repository(rs, url, local_path, commit_hash, now) ==
    DictSet(rs, url, RepositoryMetadata(url, local_path, now, now, commit_hash))

\* mutant: the record is built anew, as _load_existing_repository does
update_repository_replaces(rs, url, local_path, commit_hash, now) ==
    DictSet(rs, url, RepositoryMetadata(url, local_path, NoTime, now, commit_hash))

\* _update_repository, once pull_repository has returned
update_repository(rs, url, local_path, commit_hash, now) ==
    IF DictHas(rs, url)
    THEN [rs EXCEPT ![DictPos(rs, url)][2] =
            [@ EXCEPT !.last_updated = now, !.commit_hash = commit_hash]]
    ELSE DictSet(rs, url, RepositoryMetadata(url, local_path, NoTime, now, commit_hash))

\* _load_existing_repository
load_existing_repository(rs, url, local_path, commit_hash) ==
    DictSet(rs, url, RepositoryMetadata(url, local_path, NoTime, NoTime, commit_hash))

ManagerInit ==
    /\ index = NewIndex
    /\ added = FALSE
    /\ last = NoCall
    /\ idem = IdleScript
    /\ SyncIdle
    /\ \E urls \in UrlLists(MaxRepos) \ {<<>>}, auto_update \in BOOLEAN,
          disk \in [RepoNames -> InitialDisk] :
         rm = [urls |-> urls, auto_update |-> auto_update, repositories |-> <<>>,
               disk |-> disk, op |-> "", pc |-> "idle", cur |-> 0, calls |-> 0,
               log |-> <<>>]

RmStep(r) ==
    /\ rm' = r
    /\ UNCHANGED <<idem, idxVars, syncVars>>

RmBetweenCalls ==
    /\ rm.pc \in {"idle", "returned", "raised"}
    /\ rm.calls < MaxCalls

RmBegin(op) ==
    [rm EXCEPT !.op = op, !.pc = "loop", !.cur = 1, !.calls = @ + 1, !.log = <<>>]

\* the URL the loop is at, and base_path / repo_name
RmUrl == rm.urls[rm.cur]
RmPath == get_repo_name_from_url(RmUrl)

\* the URL is attempted
RmAttempt(r) == [r EXCEPT !.log = Append(@, RmUrl)]

\* the loop moves to the next URL, or the operation returns
RmAdvance(r) ==
    IF r.cur = Len(r.urls) THEN [r EXCEPT !.pc = "returned"] ELSE [r EXCEPT !.cur = @ + 1]

\* an exception leaves the operation: nothing in RepositoryManager catches it
RmRaise(r) == [r EXCEPT !.pc = "raised"]

InitializeRepositories ==
    /\ RmBetweenCalls
    /\ RmStep(RmBegin("initialize"))

CloneAllRepositories ==
    /\ RmBetweenCalls
    /\ RmStep(RmBegin("clone_all"))

\* clone_repository raises CloneFailedError, or clones the commit upstream is at
CloneNew ==
    \/ RmStep(RmRaise(RmAttempt(rm)))
    \/ \E upstream \in Commits :
         RmStep(RmAdvance(RmAttempt(
            [rm EXCEPT !.disk[RmPath] = GitRepo(RmUrl, upstream),
                       !.repositories =
                           clone_new_repository(@, RmUrl, RmPath, upstream, rm.calls)])))

\* pull_repository raises GitOperationError, or pulls the commit upstream is at
PullAndUpdate(r, url, local_path) ==
    \/ RmStep(RmRaise(r))
    \/ \E upstream \in Commits :
         RmStep(RmAdvance(
            [r EXCEPT !.disk[local_path] = GitRepo(@.origin, upstream),
                      !.repositories =
                          update_repository(@, url, local_path, upstream, rm.calls)]))

\* the three branches of the loop of initialize_repositories
InitializeCloneNewRepository ==
    /\ rm.pc = "loop"
    /\ rm.op = "initialize"
    /\ ~is_git_repository(rm.disk, RmPath)
    /\ CloneNew

InitializeUpdateRepository ==
    /\ rm.pc = "loop"
    /\ rm.op = "initialize"
    /\ is_git_repository(rm.disk, RmPath)
    /\ rm.auto_update
    /\ PullAndUpdate(RmAttempt(rm), RmUrl, RmPath)

InitializeLoadExistingRepository ==
    /\ rm.pc = "loop"
    /\ rm.op = "initialize"
    /\ is_git_repository(rm.disk, RmPath)
    /\ ~rm.auto_update
    /\ RmStep(RmAdvance(RmAttempt(
          [rm EXCEPT !.repositories =
              load_existing_repository(@, RmUrl, RmPath,
                                       get_current_commit_hash(rm.disk, RmPath))])))

CloneAllCloneNewRepository ==
    /\ rm.pc = "loop"
    /\ rm.op = "clone_all"
    /\ rm.disk[RmPath].kind = "absent"
    /\ CloneNew

CloneAllSkip ==
    /\ rm.pc = "loop"
    /\ rm.op = "clone_all"
    /\ rm.disk[RmPath].kind # "absent"
    /\ RmStep(RmAdvance(rm))

\* update_repository(url): RepositoryNotFoundError for a URL that is not
\* managed, InvalidRepositoryError when the clone is gone, else a pull
UpdateRepository ==
    /\ RmBetweenCalls
    /\ \E url \in Urls \cup Range(rm.urls) :
         LET r == [rm EXCEPT !.op = "update", !.pc = "returned", !.cur = 0,
                             !.calls = @ + 1, !.log = <<url>>]
         IN IF ~DictHas(rm.repositories, url)
            THEN RmStep(RmRaise([r EXCEPT !.log = <<>>]))
            ELSE LET local_path == DictGet(rm.repositories, url, NoPath).local_path
                 IN IF ~is_git_repository(rm.disk, local_path)
                    THEN RmStep(RmRaise(r))
                    ELSE \/ RmStep(RmRaise(r))
                         \/ \E upstream \in Commits :
                              RmStep([r EXCEPT
                                 !.disk[local_path] = GitRepo(@.origin, upstream),
                                 !.repositories =
                                     update_repository(@, url, local_path, upstream,
                                                       rm.calls + 1)])

ManagerNext ==
    \/ InitializeRepositories
    \/ CloneAllRepositories
    \/ UpdateRepository
    \/ InitializeCloneNewRepository
    \/ InitializeUpdateRepository
    \/ InitializeLoadExistingRepository
    \/ CloneAllCloneNewRepository
    \/ CloneAllSkip

ManagerSpec == ManagerInit /\ [][ManagerNext]_vars

(* C17: initialize_repositories never aborts the batch on a single failure:
   when it ends, every configured URL has been attempted, in the configured
   order, whether or not the clone or update of an earlier URL failed. *)
CexC17 ==
    (rm.op = "initialize" /\ rm.pc \in {"returned", "raised"}) => rm.log = rm.urls

(* C20: a record of RepositoryManager.repositories is created on the first
   attempt for its URL and changed in place by every later attempt: no step
   removes a record or changes its url or local_path, and a step that does
   not clone the URL leaves last_cloned as it was. *)
RmClones(url) ==
    /\ rm.pc = "loop"
    /\ RmUrl = url
    /\ ~is_git_repository(rm.disk, RmPath)

StepC20 ==
    \A url \in DictKeys(rm.repositories) :
        /\ DictHas(rm'.repositories, url)
        /\ LET old == DictGet(rm.repositories, url, NoPath)
               new == DictGet(rm'.repositories, url, NoPath)
           IN /\ new.url = old.url
              /\ new.local_path = old.local_path
              /\ ~RmClones(url) => new.last_cloned = old.last_cloned

CexC20 == [][StepC20]_vars

(* C21: a successful clone leaves a record with last_cloned = last_updated =
   the time of the clone and commit_hash = the HEAD of the clone; a successful
   update of a URL that has a record sets last_updated to the time of the
   update and commit_hash to the HEAD after the pull, and leaves url,
   local_path, branch and last_cloned as they were; a clone or update that
   fails creates and changes no record.  No step touches the record of
   another URL. *)
RmRecord(r, url) == DictGet(r.repositories, url, NoPath)

RmOthersKept(url) ==
    \A u \in DictKeys(rm.repositories) \ {url} : RmRecord(rm', u) = RmRecord(rm, u)

RmCloneBranch ==
    /\ rm.pc = "loop"
    /\ \/ rm.op = "initialize" /\ rm.disk[RmPath].kind # "repo"
       \/ rm.op = "clone_all" /\ rm.disk[RmPath].kind = "absent"

RmUpdateBranch ==
    /\ rm.pc = "loop"
    /\ rm.op = "initialize"
    /\ rm.disk[RmPath].kind = "repo"
    /\ rm.auto_update

Updated(old, new, path) ==
    /\ new.last_updated = rm'.calls
    /\ new.commit_hash = rm'.disk[path].head
    /\ new.url = old.url
    /\ new.local_path = old.local_path
    /\ new.branch = old.branch
    /\ new.last_cloned = old.last_cloned

StepC21 ==
    /\ rm'.pc = "raised" => rm'.repositories = rm.repositories
    /\ (RmCloneBranch /\ rm'.pc # "raised") =>
          /\ rm'.disk[RmPath].kind = "repo"
          /\ RmRecord(rm', RmUrl) =
                [url |-> RmUrl, branch |-> "main", local_path |-> RmPath,
                 last_cloned |-> rm'.calls, last_updated |-> rm'.calls,
                 commit_hash |-> rm'.disk[RmPath].head]
          /\ RmOthersKept(RmUrl)
    /\ (RmUpdateBranch /\ rm'.pc # "raised" /\ DictHas(rm.repositories, RmUrl)) =>
          /\ Updated(RmRecord(rm, RmUrl), RmRecord(rm', RmUrl), RmPath)
          /\ RmOthersKept(RmUrl)
    /\ (rm.pc # "loop" /\ rm'.op = "update" /\ rm'.pc # "raised") =>
          /\ rm'.log # <<>>
          /\ DictHas(rm.repositories, rm'.log[1])
          /\ Updated(RmRecord(rm, rm'.log[1]), RmRecord(rm', rm'.log[1]),
                     RmRecord(rm, rm'.log[1]).local_path)
          /\ RmOthersKept(rm'.log[1])

ThmC21 == [][StepC21]_vars

\* a record cloned by the first operation and updated by the second: the
\* clone time is kept, the update time and the commit are new
WitC21 ==
    /\ rm.pc = "returned"
    /\ \E u \in DictKeys(rm.repositories) :
         /\ RmRecord(rm, u).last_cloned = 1
         /\ RmRecord(rm, u).last_updated = 2
         /\ RmRecord(rm, u).commit_hash = "c2"
         /\ rm.disk[RmRecord(rm, u).local_path].head = "c2"

----------------------------------------------------------------------------
(* C22: while is_built() is true, filter_classes_by_repository(u) raises
   RepositoryNotIndexedError exactly when no class is held under u, which is
   the case both for a URL no add_class / add_classes call ever named and for a
   URL whose classes were all removed; otherwise it returns exactly the classes
   that were added under u and not removed since, in the order of their
   addition. *)
\* the entries some add_class(_, u) call inserted and no removal has dropped
HeldUnder(idx, u) == OfOrigin(Flatten(idx.repository_index), u)

IsPrefix(s, t) == Len(s) <= Len(t) /\ SubSeq(t, 1, Len(s)) = s

InvC22 ==
    is_built(index) =>
        \A u \in RepoArgs :
            filter_classes_by_repository(index, u) =
                IF HeldUnder(index, u) = <<>>
                THEN Raised("RepositoryNotIndexedError")
                ELSE Returned(HeldUnder(index, u))

StepC22 ==
    /\ last'.op = "reindex_repository" =>
          HeldUnder(index', last'.repo) =
              [i \in 1..Len(last'.classes) |-> Indexed(last'.classes[i], last'.repo)]
    /\ last'.op \in {"add_class", "add_classes"} =>
          \A u \in RepoArgs : IsPrefix(HeldUnder(index, u), HeldUnder(index', u))
    /\ last'.op = "add_class" =>
          \E u \in Repos :
              /\ Len(HeldUnder(index', u)) = Len(HeldUnder(index, u)) + 1
              /\ \A v \in RepoArgs \ {u} : HeldUnder(index', v) = HeldUnder(index, v)
    /\ last'.op = "clear" => \A u \in RepoArgs : HeldUnder(index', u) = <<>>

ThmC22 == []InvC22 /\ [][StepC22]_vars

\* R1's classes were all removed by reindex_repository(R1, []), R2 still holds
\* one, R3 was never named: the first and the last raise, R2 is listed
WitC22 ==
    /\ is_built(index)
    /\ last.op = "reindex_repository" /\ last.repo = "R1" /\ last.classes = <<>>
    /\ filter_classes_by_repository(index, "R1") = Raised("RepositoryNotIndexedError")
    /\ filter_classes_by_repository(index, "R3") = Raised("RepositoryNotIndexedError")
    /\ filter_classes_by_repository(index, "R2").raised = "none"
    /\ Len(filter_classes_by_repository(index, "R2").value) = 1

----------------------------------------------------------------------------
(* C23: add_class of a class whose fully qualified name is already indexed,
   under the same or another repository, makes get_class_by_fqn return the
   class just added, leaves get_total_classes as it was, and appends the class
   to the lists of its name, its package and its repository; the lists of the
   other repositories, with their entries of that FQN, are untouched.  (For a
   new FQN the same holds with get_total_classes one larger.) *)
\* the entry an add_class step appended under repository u
Appended(u) == HeldUnder(index', u)[Len(HeldUnder(index', u))]

AddedUnder(u) ==
    /\ last'.op = "add_class"
    /\ Len(HeldUnder(index', u)) = Len(HeldUnder(index, u)) + 1

StepC23 ==
    \A u \in Repos :
        AddedUnder(u) =>
            LET e == Appended(u)
                fqn == e.fully_qualified_name
            IN /\ get_class_by_fqn(index', fqn) = <<e>>
               /\ get_total_classes(index') =
                     IF get_class_by_fqn(index, fqn) # <<>>
                     THEN get_total_classes(index)
                     ELSE get_total_classes(index) + 1
               /\ get_classes_by_name(index', e.name) =
                     Append(get_classes_by_name(index, e.name), e)
               /\ get_classes_by_package(index', e.package) =
                     Append(get_classes_by_package(index, e.package), e)
               /\ get_classes_by_repository(index', u) =
                     Append(get_classes_by_repository(index, u), e)
               /\ \A v \in RepoArgs \ {u} :
                     get_classes_by_repository(index', v) =
                         get_classes_by_repository(index, v)

ThmC23 == [][StepC23]_vars

\* p.W was added under R1 with methods and then under R2 without: one class is
\* counted, the FQN lookup returns R2's, R1's list still holds R1's
WitC23 ==
    /\ last.op = "add_class"
    /\ get_total_classes(index) = 1
    /\ get_class_by_fqn(index, Widget.fully_qualified_name) = <<Indexed(WidgetAlt, "R2")>>
    /\ get_classes_by_repository(index, "R1") = <<Indexed(Widget, "R1")>>
    /\ get_classes_by_repository(index, "R2") = <<Indexed(WidgetAlt, "R2")>>
    /\ get_classes_by_name(index, Widget.name) =
          <<Indexed(Widget, "R1"), Indexed(WidgetAlt, "R2")>>

----------------------------------------------------------------------------
(* C24: every multi-result query returns its results in the order in which
   add_class inserted them.  Entries inserted later than all the entries a
   query returned before must then follow them: across an add_class or
   add_classes call the old result of every query is a prefix of the new
   one. *)
\* the arguments the order is examined for: method names "", "r", "gv", "g",
\* class names "W", "w", packages "p", "P", and the filters None, "W" and R1
OrderNames == {<<>>, <<114>>, <<103, 118>>, <<103>>}
OrderFilters == {<<>>, <<Widget.name>>}
OrderClasses == {Widget.name, LowerWidget.name}
OrderPackages == {Widget.package, LowerWidget.package}
OrderRepos == {<<>>, <<"R1">>}

\* Rel of one query's results on three indexes, each computed once
On(Rel(_, _, _), a, b, c) == \A r \in {<<a, b, c>>} : Rel(r[1], r[2], r[3])

\* the queries that read the list of one key
ForSingleKey(i, j, k, Rel(_, _, _)) ==
    /\ \A m \in OrderNames, c \in OrderFilters :
          On(Rel, search_methods(i, m, c, TRUE).value,
                  search_methods(j, m, c, TRUE).value,
                  search_methods(k, m, c, TRUE).value)
    /\ \A n \in OrderClasses :
          On(Rel, query_classes_by_name(i, n, TRUE).value,
                  query_classes_by_name(j, n, TRUE).value,
                  query_classes_by_name(k, n, TRUE).value)
    /\ \A u \in Repos :
          On(Rel, filter_classes_by_repository(i, u).value,
                  filter_classes_by_repository(j, u).value,
                  filter_classes_by_repository(k, u).value)
    /\ \A q \in OrderPackages, u \in OrderRepos :
          On(Rel, filter_classes_by_package(i, q, u).value,
                  filter_classes_by_package(j, q, u).value,
                  filter_classes_by_package(k, q, u).value)

\* the queries that scan every key of method_index / class_name_index
ForMethodScans(i, j, k, Rel(_, _, _)) ==
    /\ \A m \in OrderNames, c \in OrderFilters :
          On(Rel, search_methods(i, m, c, FALSE).value,
                  search_methods(j, m, c, FALSE).value,
                  search_methods(k, m, c, FALSE).value)
    /\ \A m \in OrderNames, cs \in BOOLEAN :
          On(Rel, search_methods_partial(i, m, cs).value,
                  search_methods_partial(j, m, cs).value,
                  search_methods_partial(k, m, cs).value)

ForClassScans(i, j, k, Rel(_, _, _)) ==
    \A n \in OrderClasses :
        On(Rel, query_classes_by_name(i, n, FALSE).value,
                query_classes_by_name(j, n, FALSE).value,
                query_classes_by_name(k, n, FALSE).value)

AddStep == last'.op \in {"add_class", "add_classes"}

\* old result, result after the removal (the old one when nothing is
\* removed), new result
Appends(old, mid, new) == IsPrefix(old, new)

AddAppends ==
    AddStep =>
        /\ ForSingleKey(index, index, index', Appends)
        /\ ForMethodScans(index, index, index', Appends)
        /\ ForClassScans(index, index, index', Appends)

CexC24 == [][AddAppends]_vars

(* C24, amended: every query returns the entries of one index key in the
   order in which add_class inserted them, and a query that scans several keys
   (case-insensitive search_methods and get_classes_by_name, and
   search_methods_partial in both modes) returns the lists of the matching
   keys one after the other, the keys in the order in which they first entered
   the map since the last clear.  Across add_class / add_classes the old
   entries of a key are a prefix of the new ones; across reindex_repository
   the entries that survive the removal keep their order and the added ones
   follow them. *)
MethodKeys == UNION {{m.name : m \in Range(c.methods)} : c \in Classes}
ClassKeys == {c.name : c \in Classes}

PairsUnder(ps, k) == SelectSeq(ps, LAMBDA p : p[2].name = k)
ClassesUnder(cs, k) == SelectSeq(cs, LAMBDA c : c.name = k)

\* mid is old without the entries that were removed, in old's order, and new
\* is mid followed by the entries that were added
Kept(old, mid, new) ==
    /\ mid = SelectSeq(old, LAMBDA e : e \in Range(mid))
    /\ IsPrefix(mid, new)

PairsKeyKept(old, mid, new) ==
    \A k \in MethodKeys :
        Kept(PairsUnder(old, k), PairsUnder(mid, k), PairsUnder(new, k))

ClassesKeyKept(old, mid, new) ==
    \A k \in ClassKeys :
        Kept(ClassesUnder(old, k), ClassesUnder(mid, k), ClassesUnder(new, k))

KeySeq(d) == [i \in 1..Len(d) |-> d[i][1]]

\* the result runs through the keys in the order the map holds them
PairsGrouped(old, mid, new) ==
    \A x, y \in 1..Len(new) :
        x < y => DictPos(index.method_index, new[x][2].name)
                    <= DictPos(index.method_index, new[y][2].name)

ClassesGrouped(old, mid, new) ==
    \A x, y \in 1..Len(new) :
        x < y => DictPos(index.class_name_index, new[x].name)
                    <= DictPos(index.class_name_index, new[y].name)

GroupedC24 ==
    /\ ForMethodScans(NewIndex, NewIndex, index, PairsGrouped)
    /\ ForClassScans(NewIndex, NewIndex, index, ClassesGrouped)

KeysKept ==
    /\ IsPrefix(KeySeq(index.method_index), KeySeq(index'.method_index))
    /\ IsPrefix(KeySeq(index.class_name_index), KeySeq(index'.class_name_index))

StepC24 ==
    /\ AddStep =>
          /\ KeysKept
          /\ ForSingleKey(index, index, index', Kept)
          /\ ForMethodScans(index, index, index', PairsKeyKept)
          /\ ForClassScans(index, index, index', ClassesKeyKept)
    /\ last'.op = "reindex_repository" =>
          /\ KeysKept
          /\ ForSingleKey(index, last'.removed, index', Kept)
          /\ ForMethodScans(index, last'.removed, index', PairsKeyKept)
          /\ ForClassScans(index, last'.removed, index', ClassesKeyKept)

ThmC24 == []GroupedC24 /\ [][StepC24]_vars

\* W was added before w under R1: the scan returns both classes' r before
\* W's gV, key by key
WitC24 ==
    /\ get_classes_by_repository(index, "R1") =
          <<Indexed(Widget, "R1"), Indexed(LowerWidget, "R1")>>
    /\ search_methods_partial(index, <<>>, TRUE) =
          Returned(<<<<Indexed(Widget, "R1"), m_r>>,
                     <<Indexed(LowerWidget, "R1"), m_r2>>,
                     <<Indexed(Widget, "R1"), m_gV>>,
                     <<Indexed(LowerWidget, "R1"), m_gv>>>>)

----------------------------------------------------------------------------
(* C25: search_methods(name, class_name, case_sensitive) returns exactly the
   (class, method) pairs held in the method index whose method name equals
   name, after lower-casing both when case_sensitive is false, and, when a
   non-empty class_name is given, whose class's simple name equals class_name
   under the same rule: every such pair as often as it is held, and no other
   pair.  A pair that add_class has just indexed is found under every name and
   class filter that match it. *)
Count(seq, x) == Len(SelectSeq(seq, LAMBDA y : y = x))

MatchesC25(p, name, class_name, case_sensitive) ==
    /\ IF case_sensitive THEN p[2].name = name ELSE Lower(p[2].name) = Lower(name)
    /\ (class_name # <<>> /\ class_name[1] # <<>>) =>
          IF case_sensitive THEN p[1].name = class_name[1]
          ELSE Lower(p[1].name) = Lower(class_name[1])

InvC25 ==
    is_built(index) =>
        \A name \in MethodNameArgs, class_name \in OptionalOf(ClassNameArgs),
           case_sensitive \in BOOLEAN :
            \A r \in {search_methods(index, name, class_name, case_sensitive)} :
                /\ r.raised = "none"
                /\ \A p \in Range(Flatten(index.method_index)) \cup Range(r.value) :
                      Count(r.value, p) =
                          IF MatchesC25(p, name, class_name, case_sensitive)
                          THEN Count(Flatten(index.method_index), p)
                          ELSE 0

StepC25 ==
    \A u \in Repos :
        AddedUnder(u) =>
            \A i \in 1..Len(Appended(u).methods) :
                \A name \in MethodNameArgs, class_name \in OptionalOf(ClassNameArgs),
                   case_sensitive \in BOOLEAN :
                    MatchesC25(<<Appended(u), Appended(u).methods[i]>>,
                               name, class_name, case_sensitive)
                    => <<Appended(u), Appended(u).methods[i]>>
                          \in Range(search_methods(index', name, class_name,
                                                   case_sensitive).value)

ThmC25 == []InvC25 /\ [][StepC25]_vars

\* W (methods r, gV) and w (methods r, gv) are indexed: "GV" with the class
\* filter "w" finds gV of W and gv of w when case is ignored and nothing when
\* it is not; "gv" as written finds only w's
WitC25 ==
    /\ last.op = "add_class"
    /\ Len(search_methods(index, <<71, 86>>, <<LowerWidget.name>>, FALSE).value) = 2
    /\ search_methods(index, <<71, 86>>, <<LowerWidget.name>>, TRUE) = Returned(<<>>)
    /\ Len(search_methods(index, <<103, 118>>, <<>>, TRUE).value) = 1

----------------------------------------------------------------------------
(* C26: search_methods_partial(pattern, case_sensitive) returns exactly the
   (class, method) pairs held in the method index whose method name has
   pattern as a substring, both lower-cased first when case_sensitive is
   false; a pair is returned as many times as it is held, and every add_class
   of a class adds one occurrence of each of its matching pairs. *)
HasSubstring(name, pattern) ==
    \E start \in 0..Len(name) :
        /\ start + Len(pattern) <= Len(name)
        /\ \A j \in 1..Len(pattern) : name[start + j] = pattern[j]

MatchesC26(p, pattern, case_sensitive) ==
    IF case_sensitive THEN HasSubstring(p[2].name, pattern)
    ELSE HasSubstring(Lower(p[2].name), Lower(pattern))

InvC26 ==
    is_built(index) =>
        \A pattern \in MethodNameArgs, case_sensitive \in BOOLEAN :
            \A r \in {search_methods_partial(index, pattern, case_sensitive)} :
                /\ r.raised = "none"
                /\ \A p \in Range(Flatten(index.method_index)) \cup Range(r.value) :
                      Count(r.value, p) =
                          IF MatchesC26(p, pattern, case_sensitive)
                          THEN Count(Flatten(index.method_index), p)
                          ELSE 0

\* how often method m occurs in the method list of class entry e
Occurrences(e, m) == Count(e.methods, m)

StepC26 ==
    \A u \in Repos :
        AddedUnder(u) =>
            \A pattern \in MethodNameArgs, case_sensitive \in BOOLEAN :
                \A r \in {<<search_methods_partial(index, pattern, case_sensitive).value,
                            search_methods_partial(index', pattern, case_sensitive).value>>} :
                    \A p \in Range(r[1]) \cup Range(r[2]) :
                        Count(r[2], p) =
                            Count(r[1], p) +
                            (IF p[1] = Appended(u) /\ MatchesC26(p, pattern, case_sensitive)
                             THEN Occurrences(Appended(u), p[2]) ELSE 0)

ThmC26 == []InvC26 /\ [][StepC26]_vars

\* W was indexed twice under R1: "V" returns its gV twice, "gv" returns it
\* twice when case is ignored and never when it is not, "" returns all four
WitC26 ==
    /\ get_classes_by_repository(index, "R1") =
          <<Indexed(Widget, "R1"), Indexed(Widget, "R1")>>
    /\ search_methods_partial(index, <<86>>, TRUE) =
          Returned(<<<<Indexed(Widget, "R1"), m_gV>>, <<Indexed(Widget, "R1"), m_gV>>>>)
    /\ Len(search_methods_partial(index, <<103, 118>>, FALSE).value) = 2
    /\ search_methods_partial(index, <<103, 118>>, TRUE) = Returned(<<>>)
    /\ Len(search_methods_partial(index, <<>>, TRUE).value) = 4

----------------------------------------------------------------------------
(* C27: search_class(fqn, True) returns the class stored under exactly fqn, or
   None; search_class(fqn, False) returns the class of the first class_index
   key, in the order the dict holds its keys, that equals fqn after
   lower-casing both, or None when no key does; so it returns a class whenever
   the case-sensitive lookup does.  Right after add_class the class stored
   under its FQN is the class just added. *)
\* positions of the class_index keys that are fqn up to case
SameLower(idx, fqn) ==
    {i \in 1..Len(idx.class_index) : Lower(idx.class_index[i][1]) = Lower(fqn)}

Least(S) == CHOOSE i \in S : \A j \in S : i <= j

InvC27 ==
    is_built(index) =>
        \A fqn \in FqnArgs :
            LET exact == {i \in 1..Len(index.class_index) : index.class_index[i][1] = fqn}
                sensitive == search_class(index, fqn, TRUE)
                insensitive == search_class(index, fqn, FALSE)
            IN /\ sensitive =
                     IF exact = {} THEN Returned(<<>>)
                     ELSE Returned(<<index.class_index[Least(exact)][2]>>)
               /\ Cardinality(exact) <= 1
               /\ insensitive =
                     IF SameLower(index, fqn) = {} THEN Returned(<<>>)
                     ELSE Returned(<<index.class_index[Least(SameLower(index, fqn))][2]>>)
               /\ sensitive.value # <<>> => insensitive.value # <<>>

StepC27 ==
    \A u \in Repos :
        AddedUnder(u) =>
            /\ search_class(index', Appended(u).fully_qualified_name, TRUE)
                   = Returned(<<Appended(u)>>)
            /\ search_class(index', Appended(u).fully_qualified_name, FALSE).value # <<>>

ThmC27 == []InvC27 /\ [][StepC27]_vars

\* p.W was indexed before P.w: "P.w" as written finds P.w, "P.w" and "p.w"
\* without case sensitivity find p.W, "p.w" as written finds nothing
WitC27 ==
    /\ KeySeq(index.class_index) =
          <<Widget.fully_qualified_name, LowerWidget.fully_qualified_name>>
    /\ search_class(index, LowerWidget.fully_qualified_name, TRUE).value
          = <<Indexed(LowerWidget, "R1")>>
    /\ search_class(index, LowerWidget.fully_qualified_name, FALSE).value
          = <<Indexed(Widget, "R1")>>
    /\ search_class(index, <<112, 46, 119>>, FALSE).value = <<Indexed(Widget, "R1")>>
    /\ search_class(index, <<112, 46, 119>>, TRUE) = Returned(<<>>)

----------------------------------------------------------------------------
(* C28: while the index is built, filter_classes_by_package(p, r) returns, in
   the order of the package index, exactly the classes of package p whose FQN
   is the FQN of some class held under repository r, and all the classes of
   package p when no r (None or "") is given; it never raises
   RepositoryNotIndexedError and returns the empty list when r holds no
   class.  A class just added under r is in the result for its package and r,
   and in the result for its package alone. *)
\* the classes of package p, in the order the package index holds them
OfPackage(idx, p) == SelectSeq(Flatten(idx.package_index), LAMBDA c : c.package = p)

FqnsHeldUnder(idx, r) == {e.fully_qualified_name : e \in Range(HeldUnder(idx, r))}

InvC28 ==
    is_built(index) =>
        \A p \in PackageArgs :
            /\ \A opt \in {<<>>, <<"">>} :
                  filter_classes_by_package(index, p, opt) = Returned(OfPackage(index, p))
            /\ \A r \in RepoArgs \ {""} :
                  /\ filter_classes_by_package(index, p, <<r>>) =
                        Returned(SelectSeq(OfPackage(index, p),
                                   LAMBDA c : c.fully_qualified_name
                                                 \in FqnsHeldUnder(index, r)))
                  /\ HeldUnder(index, r) = <<>> =>
                        filter_classes_by_package(index, p, <<r>>) = Returned(<<>>)

StepC28 ==
    \A u \in Repos :
        AddedUnder(u) =>
            /\ Appended(u) \in
                  Range(filter_classes_by_package(index', Appended(u).package, <<u>>).value)
            /\ Appended(u) \in
                  Range(filter_classes_by_package(index', Appended(u).package, <<>>).value)

ThmC28 == []InvC28 /\ [][StepC28]_vars

\* p.W is held under R1 and, as another entry, under R2: the filter by R2
\* returns both entries of package p, R1's first; R3 holds nothing and the
\* filter by R3 returns the empty list
WitC28 ==
    /\ filter_classes_by_package(index, Widget.package, <<"R2">>) =
          Returned(<<Indexed(Widget, "R1"), Indexed(WidgetAlt, "R2")>>)
    /\ get_classes_by_repository(index, "R2") = <<Indexed(WidgetAlt, "R2")>>
    /\ filter_classes_by_package(index, Widget.package, <<"R3">>) = Returned(<<>>)
    /\ filter_classes_by_package(index, Widget.package, <<>>).value # <<>>

----------------------------------------------------------------------------
(* QueryEngine over an APIIndexer: the callers of the index run queries
   between the calls that change it.  Each query action carries the index
   through the dict accesses the query makes.  The index is filled by add_class
   and emptied by clear. *)

\* mutant: d[k] on a defaultdict(list), which files an empty list under a
\* missing key
AfterSubscript(d, k) == IF DictHas(d, k) THEN d ELSE Append(d, <<k, <<>>>>)

\* the dict after d.get(k) / d.get(k, []): no key is added, on a defaultdict
\* too.  Iterating d.items() and len(d) are not modelled as accesses.
AfterGet(d, k) == d

Queried(op, result, repository_url) ==
    /\ last' = [NoCall EXCEPT !.op = op, !.raised = result.raised, !.repo = repository_url]
    /\ UNCHANGED <<added, idem, syncVars, rm>>

SearchMethods ==
    \E method_name \in MethodNameArgs, class_name \in OptionalOf(ClassNameArgs),
       case_sensitive \in BOOLEAN :
        /\ index' = IF is_built(index) /\ case_sensitive
                    THEN [index EXCEPT !.method_index = AfterGet(@, method_name)]
                    ELSE index
        /\ Queried("search_methods",
                   search_methods(index, method_name, class_name, case_sensitive), "")

SearchMethodsPartial ==
    \E method_name_pattern \in MethodNameArgs, case_sensitive \in BOOLEAN :
        /\ index' = index
        /\ Queried("search_methods_partial",
                   search_methods_partial(index, method_name_pattern, case_sensitive), "")

SearchClass ==
    \E class_name \in FqnArgs, case_sensitive \in BOOLEAN :
        /\ index' = IF is_built(index) /\ case_sensitive
                    THEN [index EXCEPT !.class_index = AfterGet(@, class_name)]
                    ELSE index
        /\ Queried("search_class", search_class(index, class_name, case_sensitive), "")

FilterClassesByRepositoryCall(op, repository_url) ==
    /\ index' = IF is_built(index)
                THEN [index EXCEPT !.repository_index = AfterGet(@, repository_url)]
                ELSE index
    /\ Queried(op, filter_classes_by_repository(index, repository_url), repository_url)

FilterClassesByPackageCall(op, package_name, repository_url) ==
    /\ index' =
          IF ~is_built(index) THEN index
          ELSE LET looked == [index EXCEPT !.package_index = AfterGet(@, package_name)]
               IN IF TruthyUrl(repository_url)
                  THEN [looked EXCEPT
                          !.repository_index = AfterGet(@, repository_url[1])]
                  ELSE looked
    /\ Queried(op, filter_classes_by_package(index, package_name, repository_url),
               IF repository_url = <<>> THEN "" ELSE repository_url[1])

FilterClassesByRepository ==
    \E repository_url \in RepoArgs :
        FilterClassesByRepositoryCall("filter_classes_by_repository", repository_url)

FilterClassesByPackage ==
    \E package_name \in PackageArgs, repository_url \in OptionalOf(RepoArgs) :
        FilterClassesByPackageCall("filter_classes_by_package", package_name,
                                   repository_url)

GetAllApisFromRepository ==
    \E repository_url \in RepoArgs :
        FilterClassesByRepositoryCall("get_all_apis_from_repository", repository_url)

GetAllApisFromPackage ==
    \E package_name \in PackageArgs, repository_url \in RepoArgs :
        FilterClassesByPackageCall("get_all_apis_from_package", package_name,
                                   <<repository_url>>)

GetClassesByName ==
    \E class_name \in ClassNameArgs, case_sensitive \in BOOLEAN :
        /\ index' = IF is_built(index) /\ case_sensitive
                    THEN [index EXCEPT !.class_name_index = AfterGet(@, class_name)]
                    ELSE index
        /\ Queried("get_classes_by_name",
                   query_classes_by_name(index, class_name, case_sensitive), "")

GetStatistics ==
    /\ index' = index
    /\ Queried("get_statistics", get_statistics(index), "")

QueryNext ==
    \/ AddClass
    \/ Clear
    \/ SearchMethods
    \/ SearchMethodsPartial
    \/ SearchClass
    \/ FilterClassesByRepository
    \/ FilterClassesByPackage
    \/ GetAllApisFromRepository
    \/ GetAllApisFromPackage
    \/ GetClassesByName
    \/ GetStatistics

QuerySpec == Init /\ [][QueryNext]_vars

(* C29: no QueryEngine operation changes the index: after any query, whether
   it returned or raised, the six index maps, their key sets and key order
   included, and the built flag are what they were before it. *)
QueryOps ==
    {"search_methods", "search_methods_partial", "search_class",
     "filter_classes_by_repository", "filter_classes_by_package",
     "get_all_apis_from_repository", "get_all_apis_from_package",
     "get_classes_by_name", "get_statistics"}

StepC29 == last'.op \in QueryOps => index' = index

ThmC29 == [][StepC29]_vars

\* a built index that holds nothing under R3 was asked for R3's classes: the
\* query raised and filed no key R3
WitC29 ==
    /\ last.op = "filter_classes_by_repository"
    /\ last.repo = "R3"
    /\ last.raised = "RepositoryNotIndexedError"
    /\ is_built(index)
    /\ DictKeys(index.repository_index) = {"R1"}

----------------------------------------------------------------------------
(* C30: whatever the index held, after clear() every map is empty, keys
   included: every lookup returns None or the empty list, get_total_classes()
   and get_total_methods() are 0, there are no repositories and no packages,
   and is_built() is false. *)
InvC30 ==
    last.op = "clear" =>
        /\ index.class_index = <<>> /\ index.class_name_index = <<>>
        /\ index.package_index = <<>> /\ index.repository_index = <<>>
        /\ index.method_index = <<>> /\ index.class_method_index = <<>>
        /\ \A f \in FqnArgs :
              get_class_by_fqn(index, f) = <<>> /\ get_methods_by_class(index, f) = <<>>
        /\ \A n \in ClassNameArgs : get_classes_by_name(index, n) = <<>>
        /\ \A q \in PackageArgs : get_classes_by_package(index, q) = <<>>
        /\ \A r \in RepoArgs : get_classes_by_repository(index, r) = <<>>
        /\ \A m \in MethodNameArgs : get_methods_by_name(index, m) = <<>>
        /\ get_all_classes(index) = <<>>
        /\ get_total_classes(index) = 0
        /\ get_total_methods(index) = 0
        /\ get_statistics(index).value.total_repositories = 0
        /\ get_statistics(index).value.total_packages = 0
        /\ ~is_built(index)

ThmC30 == InvC30

\* clear() was called on an index that held two entries
WitC30 ==
    /\ last.op = "clear"
    /\ last.held = 2
    /\ get_total_classes(index) = 0
    /\ get_all_classes(index) = <<>>
    /\ ~is_built(index)

----------------------------------------------------------------------------
(* GitRepositoryManager over a wider set of URLs: the constructor derives the
   local paths, and _validate_repository_remote compares the first
   repository's URL with the origin of the clone found at its path, a clone
   that may have no remote named origin. *)

MaxDotGit == 2

Hosts == {<<"github", "com">>, <<"gitlab", "com">>}
Paths ==
    {<<>>, <<"widgets">>, <<"acme", "widgets">>, <<"org", "acme", "widgets">>,
     <<"acme", "gears">>}

AnyUrls == {HttpUrl(h, p, n) : h \in Hosts, p \in Paths, n \in 0..MaxDotGit}

UrlInit ==
    /\ index = NewIndex
    /\ added = FALSE
    /\ last = NoCall
    /\ idem = IdleScript
    /\ rm = RmIdle
    /\ SyncIdle

\* GitRepositoryManager(urls, base_local_path), with a clone of some
\* repository already at the first local path
NewGitRepositoryManager ==
    /\ pc = "unused"
    /\ \E url \in AnyUrls, more \in {<<>>} \cup {<<u>> : u \in AnyUrls},
          origin \in AnyUrls \cup {NoRemote} :
         /\ repositories' = create_repository_configs(<<url>> \o more)
         /\ fs' = [p \in {generate_local_path(url)} |->
                      LocalClone(origin, "main", "c1", "c1")]
    /\ pc' = "idle"
    /\ UNCHANGED <<cur, results, runs, attempts, trace, idem, idxVars, rm>>

\* _validate_repository_remote(repositories[0]); `results` keeps what it
\* returned, whether git raised, and the exception that left it
ValidateRepositoryRemote ==
    /\ pc = "idle"
    /\ \E git_error \in BOOLEAN :
         results' =
            <<[valid |-> /\ validate_raises(fs, repositories[1], git_error) = "none"
                         /\ validate_repository_remote(fs, repositories[1], git_error),
               git_error |-> git_error,
               raised |-> validate_raises(fs, repositories[1], git_error)]>>
    /\ pc' = "validated"
    /\ UNCHANGED <<repositories, fs, cur, runs, attempts, trace, idem, idxVars, rm>>

UrlNext ==
    \/ NewGitRepositoryManager
    \/ ValidateRepositoryRemote

UrlSpec == UrlInit /\ [][UrlNext]_vars

(* C31: the local path of a URL is the base directory joined with the slug
   owner_repo built from the last two path segments, a trailing ".git"
   stripped; hence two URLs that differ only by a trailing ".git", or only by
   the host, have the same local path. *)
OnlyHostDiffers(a, b) == a.netloc # b.netloc /\ a.path = b.path /\ a.dotgit = b.dotgit

\* b is a followed by ".git"
OnlyGitTrails(a, b) == a.netloc = b.netloc /\ a.path = b.path /\ b.dotgit = a.dotgit + 1

CexC31 ==
    \A i, j \in 1..Len(repositories) :
        (\/ OnlyHostDiffers(repositories[i].url, repositories[j].url)
         \/ OnlyGitTrails(repositories[i].url, repositories[j].url))
        => repositories[i].local_path = repositories[j].local_path

(* C31, amended: for a URL whose path has at least two segments the local path
   is the base directory joined with owner_repo, built from the last two
   segments with one trailing ".git" stripped from the last; two such URLs that
   differ only by the host, or only by a ".git" that trails a URL not itself
   ending in ".git", have the same local path.  For a URL whose path has fewer
   than two segments the local path is the base directory joined with the host,
   its dots replaced by underscores: such URLs have the same local path when
   only their paths differ and different local paths when their hosts
   differ. *)
Segments(url) == Len(url.path) + (IF url.path = <<>> /\ url.dotgit > 0 THEN 1 ELSE 0)

ThmC31 ==
    /\ \A i \in 1..Len(repositories) :
          LET url == repositories[i].url
              n == Len(url.path)
          IN repositories[i].local_path =
                IF Segments(url) >= 2
                THEN url.path[n - 1] \o "_" \o url.path[n]
                        \o DotGits(IF url.dotgit = 0 THEN 0 ELSE url.dotgit - 1)
                ELSE JoinWith(url.netloc, "_")
    /\ \A i, j \in 1..Len(repositories) :
          LET a == repositories[i].url
              b == repositories[j].url
          IN /\ (Segments(a) >= 2 /\ OnlyHostDiffers(a, b))
                  => repositories[i].local_path = repositories[j].local_path
             /\ (Segments(a) >= 2 /\ OnlyGitTrails(a, b) /\ a.dotgit = 0)
                  => repositories[i].local_path = repositories[j].local_path
             /\ (Segments(a) < 2 /\ Segments(b) < 2) =>
                  (repositories[i].local_path = repositories[j].local_path
                     <=> a.netloc = b.netloc)

\* github.com/acme/widgets.git and gitlab.com/acme/widgets share acme_widgets
WitC31 ==
    /\ Len(repositories) = 2
    /\ repositories[1].url = HttpUrl(<<"github", "com">>, <<"acme", "widgets">>, 1)
    /\ repositories[2].url = HttpUrl(<<"gitlab", "com">>, <<"acme", "widgets">>, 0)
    /\ repositories[1].local_path = "acme_widgets"
    /\ repositories[2].local_path = "acme_widgets"

----------------------------------------------------------------------------
(* C32: process_repositories removes what it finds at a repository's local
   path only when that is a directory without .git and a clone is about to be
   made; a directory that holds a clone is never removed, also when a check of
   the filesystem met an I/O error. *)
RunsRmtree == "rmtree" \in Range(trace'.steps) /\ "rmtree" \notin Range(trace.steps)

StepC32 == RunsRmtree => (pc = "clone" /\ Entry.kind = "dir")

CexC32 == [][StepC32]_vars

----------------------------------------------------------------------------
(* C33: _validate_repository_remote accepts a clone exactly when the URL of
   its origin and the URL of the record are the same text once a trailing
   ".git", if there is one, is removed from each (one, not several); the
   answer is the same with the two URLs exchanged; and whenever reading the
   remote fails, the answer is no: the method returns, it does not raise. *)
\* the text of a URL less one trailing ".git"
Normal(url) == Str([url EXCEPT !.dotgit = IF @ = 0 THEN 0 ELSE @ - 1])

\* the same question with the record's URL as the origin and the origin as the
\* record's URL
Exchanged(git_error) ==
    LET origin == fs[repositories[1].local_path].origin
        local_path == generate_local_path(origin)
    IN validate_repository_remote(
          [p \in {local_path} |-> LocalClone(repositories[1].url, "main", "c1", "c1")],
          Repository(origin, local_path), git_error)

CexC33 ==
    pc = "validated" =>
        LET origin == fs[repositories[1].local_path].origin
            asked == results[1]
        IN /\ asked.raised = "none"
           /\ asked.valid <=>
                (~asked.git_error /\ Normal(origin) = Normal(repositories[1].url))
           /\ asked.valid = Exchanged(asked.git_error)
           /\ asked.git_error => ~asked.valid

----------------------------------------------------------------------------
(* reindex_repository run one statement at a time, with the QueryEngine calls
   of another thread between its statements.  `idem` holds the call: the
   statement it stands before, its arguments, how many of java_classes
   add_class has finished (k), the methods of the class under way that are
   still to be indexed, and what the index was when the call began (start,
   the list held under repository_url, is_built).  ReindexWhole is the same
   call run as one step. *)

NoReindex ==
    [step |-> "idle", repo |-> "", classes |-> <<>>, k |-> 0, methods |-> <<>>,
     held |-> <<>>, built |-> FALSE, start |-> NewIndex]

InterleavedInit ==
    /\ index = NewIndex
    /\ added = FALSE
    /\ last = NoCall
    /\ idem = NoReindex
    /\ SyncIdle
    /\ rm = RmIdle

Begun(r, cs) ==
    [NoReindex EXCEPT !.repo = r, !.classes = cs,
                      !.held = get_classes_by_repository(index, r),
                      !.built = is_built(index), !.start = index]

\* the class add_class is indexing
UnderWay == Indexed(idem.classes[idem.k + 1], idem.repo)

Statement(from, to, idx) ==
    /\ idem.step = from
    /\ index' = idx
    /\ idem' = [idem EXCEPT !.step = to]
    /\ UNCHANGED <<added, last, syncVars, rm>>

ReindexWhole ==
    /\ idem.step = "idle"
    /\ \E r \in Repos :
         \E cs \in ClassLists(Room(remove_repository(index, r))) :
            /\ index' = reindex_repository(index, r, cs)
            /\ idem' = [Begun(r, cs) EXCEPT !.k = Len(cs)]
            /\ added' = (added \/ cs # <<>>)
            /\ last' = [Called("reindex_repository") EXCEPT !.repo = r]
    /\ UNCHANGED <<syncVars, rm>>

\* self._remove_repository(repository_url)
ReindexRemove ==
    /\ idem.step = "idle"
    /\ \E r \in Repos :
         \E cs \in ClassLists(Room(remove_repository(index, r))) :
            /\ index' = remove_repository(index, r)
            /\ idem' = [Begun(r, cs) EXCEPT !.step = "for"]
            /\ last' = [Called("reindex_repository") EXCEPT !.repo = r]
    /\ UNCHANGED <<added, syncVars, rm>>

\* for java_class in java_classes:
AddClassesFor ==
    Statement("for",
              IF idem.k < Len(idem.classes) THEN "class_index" ELSE "idle",
              index)

\* self.class_index[java_class.fully_qualified_name] = java_class
AddClassIndex ==
    Statement("class_index", "class_name_index",
              [index EXCEPT
                 !.class_index = DictSet(@, UnderWay.fully_qualified_name, UnderWay)])

\* self.class_name_index[java_class.name].append(java_class)
AddClassNameIndex ==
    Statement("class_name_index", "package_index",
              [index EXCEPT !.class_name_index = DictAppend(@, UnderWay.name, UnderWay)])

\* self.package_index[java_class.package].append(java_class)
AddPackageIndex ==
    Statement("package_index", "repository_index",
              [index EXCEPT !.package_index = DictAppend(@, UnderWay.package, UnderWay)])

\* self.repository_index[repository_url].append(java_class)
AddRepositoryIndex ==
    /\ idem.step = "repository_index"
    /\ index' = [index EXCEPT !.repository_index = DictAppend(@, idem.repo, UnderWay)]
    /\ idem' = [idem EXCEPT !.step = "methods", !.methods = UnderWay.methods]
    /\ UNCHANGED <<added, last, syncVars, rm>>

\* for method in java_class.methods:
AddMethodsFor ==
    Statement("methods",
              IF idem.methods # <<>> THEN "method_index" ELSE "is_built",
              index)

\* self.method_index[method.name].append((java_class, method))
AddMethodIndex ==
    Statement("method_index", "class_method_index",
              [index EXCEPT
                 !.method_index =
                     DictAppend(@, idem.methods[1].name, <<UnderWay, idem.methods[1]>>)])

\* self.class_method_index[java_class.fully_qualified_name].append(method)
AddClassMethodIndex ==
    /\ idem.step = "class_method_index"
    /\ index' = [index EXCEPT
                   !.class_method_index =
                       DictAppend(@, UnderWay.fully_qualified_name, idem.methods[1])]
    /\ idem' = [idem EXCEPT !.step = "methods", !.methods = Tail(@)]
    /\ UNCHANGED <<added, last, syncVars, rm>>

\* self._is_built = True, and add_class returns
AddIsBuilt ==
    /\ idem.step = "is_built"
    /\ index' = [index EXCEPT !.is_built = TRUE]
    /\ idem' = [idem EXCEPT !.step = "for", !.k = @ + 1]
    /\ added' = TRUE
    /\ UNCHANGED <<last, syncVars, rm>>

\* clear(), by the thread that reindexes
InterleavedClear ==
    /\ idem.step = "idle"
    /\ ClearCall
    /\ idem' = NoReindex
    /\ UNCHANGED <<syncVars, rm>>

\* filter_classes_by_repository, called by another thread at any point
InterleavedQuery ==
    \E repository_url \in Repos :
        FilterClassesByRepositoryCall("filter_classes_by_repository", repository_url)

InterleavedNext ==
    \/ ReindexWhole
    \/ ReindexRemove
    \/ AddClassesFor
    \/ AddClassIndex
    \/ AddClassNameIndex
    \/ AddPackageIndex
    \/ AddRepositoryIndex
    \/ AddMethodsFor
    \/ AddMethodIndex
    \/ AddClassMethodIndex
    \/ AddIsBuilt
    \/ InterleavedClear
    \/ InterleavedQuery

InterleavedSpec == InterleavedInit /\ [][InterleavedNext]_vars

\* the statements before the first append to repository_index[repository_url]
BeforeFirstAppend ==
    /\ idem.step \in {"for", "class_index", "class_name_index", "package_index",
                      "repository_index"}
    /\ idem.k = 0

\* R holds none of its old and none of its new classes, and the index is built
NeitherOldNorNew ==
    /\ is_built(index)
    /\ HeldUnder(index, idem.repo) = <<>>
    /\ \A i \in 1..Len(index.class_index) :
          index.class_index[i][2].origin = idem.repo =>
             /\ idem.step # "for"
             /\ index.class_index[i][2] = UnderWay
    /\ filter_classes_by_repository(index, idem.repo)
          = Raised("RepositoryNotIndexedError")

\* inside add_class, after the write to class_index: the class is there, and
\* repository_index and method_index hold only what the finished add_class
\* calls of this reindex put there
InsideAddClass ==
    idem.step \in {"class_name_index", "package_index", "repository_index"} =>
        LET done == SubSeq(idem.classes, 1, idem.k)
        IN /\ get_class_by_fqn(index, UnderWay.fully_qualified_name) = <<UnderWay>>
           /\ PlainSeq(HeldUnder(index, idem.repo)) = done
           /\ Len(PairsOfOrigin(Flatten(index.method_index), idem.repo))
                 = CountMethods(done)

\* what a state shows when no reindex is part-way: every class of class_index
\* is listed under its repository and has its methods in method_index, and the
\* repository last reindexed holds exactly the classes it was given
Indivisible ==
    idem.step = "idle" =>
        /\ \A i \in 1..Len(index.class_index) :
              LET e == index.class_index[i][2]
              IN /\ e \in Range(get_classes_by_repository(index, e.origin))
                 /\ \A m \in Range(e.methods) :
                       <<e, m>> \in Range(get_methods_by_name(index, m.name))
        /\ index = reindex_repository(idem.start, idem.repo, idem.classes)
        /\ PlainSeq(HeldUnder(index, idem.repo)) = idem.classes
        /\ idem.classes # <<>> =>
              filter_classes_by_repository(index, idem.repo).raised = "none"

(* C34, as stated: reindex_repository is remove-then-add and not atomic.  A
   query between the two phases sees is_built() true while R holds none of its
   old and none of its new classes, so that filter_classes_by_repository(R)
   raises RepositoryNotIndexedError; a query inside add_class can see a class
   in class_index that is not yet in repository_index or method_index; and
   when reindex runs as one step no such state is seen. *)
CexC34 ==
    /\ BeforeFirstAppend => NeitherOldNorNew
    /\ InsideAddClass
    /\ Indivisible

(* C34, amended: the same, for a reindex_repository call that began on a
   built index.  On an index that was never built, or was cleared, the state
   between the two phases has is_built() false. *)
ThmC34 ==
    /\ (BeforeFirstAppend /\ idem.built) => NeitherOldNorNew
    /\ InsideAddClass
    /\ Indivisible

\* another thread called filter_classes_by_repository(R) between the removal
\* of R's two-method class and the first append to repository_index[R], with
\* the new class already in class_index
WitC34 ==
    /\ idem.step = "class_name_index"
    /\ idem.k = 0
    /\ idem.held # <<>>
    /\ CountMethods(idem.held) = 2
    /\ UnderWay.methods # <<>>
    /\ Plain(idem.held[1]) # idem.classes[1]
    /\ last.op = "filter_classes_by_repository"
    /\ last.repo = idem.repo
    /\ last.raised = "RepositoryNotIndexedError"

----------------------------------------------------------------------------
(* process_repositories over two repositories whose URLs derive one local
   path: the same owner and repository name, on the same host or on another. *)

WidgetsElsewhere == HttpUrl(<<"gitlab", "com">>, <<"acme", "widgets">>, 0)

Colliding == {Widgets, WidgetsGit, WidgetsElsewhere}

CollideInit ==
    /\ index = NewIndex
    /\ added = FALSE
    /\ last = NoCall
    /\ idem = IdleScript
    /\ rm = RmIdle
    /\ \E urls \in [1..2 -> Colliding] : repositories = create_repository_configs(urls)
    /\ fs \in [{generate_local_path(u) : u \in Colliding} -> InitialEntries]
    /\ pc = "idle"
    /\ cur = 0
    /\ results = <<>>
    /\ runs = "none"
    /\ attempts = <<>>
    /\ trace = NoTrace

CollideSpec == CollideInit /\ [][SyncNext]_vars

\* the two records share a local path and name different remotes
DifferentRemotes ==
    /\ repositories[1].local_path = repositories[2].local_path
    /\ Normal(repositories[1].url) # Normal(repositories[2].url)

\* a call has returned in which the first repository was cloned
FirstCloned ==
    /\ pc = "returned"
    /\ DifferentRemotes
    /\ attempts[1].op = "clone"
    /\ results[1].success

MatchesClone(i) ==
    /\ fs[repositories[i].local_path].kind = "repo"
    /\ Normal(fs[repositories[i].local_path].origin) = Normal(repositories[i].url)

(* C35: when two repositories of one GitRepositoryManager derive the same
   local path and name different remotes, a process_repositories call that
   clones the first routes the second to sync, where it gets no further than
   the remote validation and is reported as failed; the clone of the first is
   still in place when the call returns; and no success result stands for a
   URL whose clone has another origin. *)
CexC35 ==
    /\ FirstCloned =>
          /\ attempts[2].op = "sync"
          /\ ~results[2].success
          /\ trace.steps \in {<<>>, <<"validate">>}
          /\ trace.steps = <<"validate">> =>
                results[2].error_details
                   = "Repository remote URL does not match expected URL"
          /\ MatchesClone(1)
    /\ (Len(repositories) = 2 /\ DifferentRemotes) =>
          \A i \in 1..Len(results) : results[i].success => MatchesClone(i)

----------------------------------------------------------------------------
(* RepositoryManager over URLs that end in one repository name: the same
   repository with and without ".git", and its namesake on another host. *)

Namesakes == {Widgets, WidgetsGit, WidgetsElsewhere}

NamesakeInit ==
    /\ index = NewIndex
    /\ added = FALSE
    /\ last = NoCall
    /\ idem = IdleScript
    /\ SyncIdle
    /\ \E urls \in UNION {[1..k -> Namesakes] : k \in 1..MaxRepos},
          auto_update \in BOOLEAN,
          disk \in [{get_repo_name_from_url(u) : u \in Namesakes} -> InitialDisk] :
         rm = [urls |-> urls, auto_update |-> auto_update, repositories |-> <<>>,
               disk |-> disk, op |-> "", pc |-> "idle", cur |-> 0, calls |-> 0,
               log |-> <<>>]

NamesakeSpec == NamesakeInit /\ [][ManagerNext]_vars

(* C36: for every record of RepositoryManager.repositories, the path the
   record names holds a clone whose origin is the record's url (a trailing
   ".git" aside): no URL is registered against the clone of another
   repository, also when two configured URLs end in the same name. *)
CexC36 ==
    \A url \in DictKeys(rm.repositories) :
        LET at == rm.disk[RmRecord(rm, url).local_path]
        IN /\ at.kind = "repo"
           /\ Normal(at.origin) = Normal(url)

----------------------------------------------------------------------------
(* C37: after any sequence of add_class / add_classes / reindex_repository /
   clear, get_total_methods() is the sum of len(c.methods) over the classes
   get_all_classes() returns, and get_total_classes() is the number of
   distinct fully-qualified names among them. *)
CexC37 ==
    /\ get_total_methods(index) = CountMethods(get_all_classes(index))
    /\ get_total_classes(index)
          = Cardinality({c.fully_qualified_name : c \in Range(get_all_classes(index))})

----------------------------------------------------------------------------
(* A caller that never indexes a fully-qualified name twice: the classes it
   hands to add_classes or reindex_repository have distinct names, none of
   them held by the index when add_class runs. *)

Fqns(cs) == {cs[i].fully_qualified_name : i \in 1..Len(cs)}

Fresh(idx, cs) ==
    /\ \A i, j \in 1..Len(cs) :
          i # j => cs[i].fully_qualified_name # cs[j].fully_qualified_name
    /\ Fqns(cs) \cap Fqns(LiveEntries(idx)) = {}

UniqueAddClasses ==
    /\ \E r \in Repos :
         \E cs \in ClassLists(Room(index)) :
            /\ Fresh(index, cs)
            /\ AddClassesCall(cs, r)
    /\ UNCHANGED <<idem, syncVars, rm>>

UniqueReindexRepository ==
    /\ \E r \in Repos :
         \E cs \in ClassLists(Room(remove_repository(index, r))) :
            /\ Fresh(remove_repository(index, r), cs)
            /\ ReindexRepositoryCall(r, cs)
    /\ UNCHANGED <<idem, syncVars, rm>>

UniqueNext ==
    \/ UniqueAddClasses
    \/ UniqueReindexRepository
    \/ Clear

UniqueSpec == Init /\ [][UniqueNext]_vars

\* the (class, method) pairs of a set of classes
MethodPairs(S) == UNION {{<<e, m>> : m \in Range(e.methods)} : e \in S}

(* C38: when no fully-qualified name is indexed twice, the five maps agree
   after every add_classes, reindex_repository and clear: the classes of
   class_index are those of the repository_index lists, of the
   class_name_index lists and of the package_index lists, each listed once,
   and method_index holds exactly the (class, method) pairs of those classes. *)
ThmC38 ==
    LET S == Range(get_all_classes(index))
    IN /\ Range(Flatten(index.repository_index)) = S
       /\ Range(Flatten(index.class_name_index)) = S
       /\ Range(Flatten(index.package_index)) = S
       /\ Range(Flatten(index.method_index)) = MethodPairs(S)
       /\ Len(Flatten(index.repository_index)) = Cardinality(S)
       /\ Len(Flatten(index.class_name_index)) = Cardinality(S)
       /\ Len(Flatten(index.package_index)) = Cardinality(S)
       /\ Len(Flatten(index.method_index)) = Cardinality(MethodPairs(S))

\* a reindex that took a class with methods out of a repository and put
\* another in, next to a class of the other repository
WitC38 ==
    /\ last.op = "reindex_repository"
    /\ last.classes # <<>>
    /\ last.removed # index
    /\ Len(last.removed.class_index) = 1
    /\ Len(index.class_index) = 2
    /\ Cardinality(DictKeys(index.repository_index)) = 2
    /\ Len(Flatten(index.method_index)) = 4

----------------------------------------------------------------------------
(* C39: in every index state and for every argument, what search_methods
   returns with case sensitivity is a sub-list of what it returns without,
   and so for get_classes_by_name; and every pair search_methods returns for
   a name is among those search_methods_partial returns for it under the
   same case rule.  On an index that is not built all of them raise. *)
\* s can be had from t by leaving elements out
RECURSIVE IsSubseq(_, _)
IsSubseq(s, t) ==
    IF s = <<>> THEN TRUE
    ELSE IF t = <<>> THEN FALSE
    ELSE IF s[1] = t[1] THEN IsSubseq(Tail(s), Tail(t))
    ELSE IsSubseq(s, Tail(t))

SubList(exact, loose) ==
    /\ exact.raised = loose.raised
    /\ IsSubseq(exact.value, loose.value)

ThmC39 ==
    /\ \A method_name \in MethodNameArgs, class_name \in OptionalOf(ClassNameArgs) :
          /\ SubList(search_methods(index, method_name, class_name, TRUE),
                     search_methods(index, method_name, class_name, FALSE))
          /\ \A case_sensitive \in BOOLEAN :
                LET exact == search_methods(index, method_name, class_name,
                                            case_sensitive)
                    partial == search_methods_partial(index, method_name,
                                                      case_sensitive)
                IN /\ exact.raised = partial.raised
                   /\ Range(exact.value) \subseteq Range(partial.value)
    /\ \A class_name \in ClassNameArgs :
          SubList(query_classes_by_name(index, class_name, TRUE),
                  query_classes_by_name(index, class_name, FALSE))

\* search_methods was called on an index that holds gV of one class and gv of
\* another: "gv" finds one pair with case sensitivity, both without, and the
\* partial search for "g" finds both under either rule
WitC39 ==
    /\ last.op = "search_methods"
    /\ last.raised = "none"
    /\ Len(search_methods(index, <<103, 118>>, <<>>, TRUE).value) = 1
    /\ Len(search_methods(index, <<103, 118>>, <<>>, FALSE).value) = 2
    /\ Len(search_methods_partial(index, <<103>>, TRUE).value) = 2
    /\ Len(query_classes_by_name(index, <<119>>, TRUE).value) = 1
    /\ Len(query_classes_by_name(index, <<119>>, FALSE).value) = 2

====
